---- MODULE Spec2Model ----
(***************************************************************************)
(* Model of services/client.go of khulnasoft-cloud-sdk-go: the BaseClient  *)
(* token refresh in DoRequest, the request pipeline (NewRequest, Do) and   *)
(* the reentrant response-handler chain.                                   *)
(*                                                                         *)
(* Time is counted in whole seconds (time.Now().Add(w).Unix() compared     *)
(* with integer StartTime+ExpiresIn: flooring does not change the result   *)
(* of >= against an integer).                                              *)
(***************************************************************************)
EXTENDS Integers, Sequences, FiniteSets, TLC

----------------------------------------------------------------------------
(* Bounds of the model *)

MaxTime == 1
MaxCalls == 2
MaxHandlers == 2
MaxRetryNum == 1
DefaultRetryNum == 2
TokenExpireWindow == 1
MaxParts == 2

Callers == {"g1", "g2"}

----------------------------------------------------------------------------
(* Values *)

NoErr == "nil"
ErrTransport == "transport error"
ErrHandler == "handler error"
ErrRetrieve == "token retrieval error"
ErrForm == "bad request of form data"
ErrMarshal == "marshal error"
ErrHTTP == "http status error"

StatusOK == 200
StatusTooManyRequests == 429
StatusServerError == 500
Statuses == {StatusOK, StatusTooManyRequests, StatusServerError}

\* code under which a ShouldRetryFn predicate lists "the transport failed"
TransportFailure == 0

NoResp == [status |-> 0, attempt |-> 0, mark |-> 0]
NoCtx == [AccessToken |-> 0, StartTime |-> 0, ExpiresIn |-> 0]
StaticToken == 1
ExpiresInChoices == {0, TokenExpireWindow + 1}
Free == "free"

----------------------------------------------------------------------------
(* fmt.Sprintf("%d", n): the decimal text of n, as a sequence of digits *)

RECURSIVE Itoa(_)
Itoa(n) == IF n < 10 THEN <<n>> ELSE Append(Itoa(n \div 10), n % 10)

(* Request.GetNumErrorsByResponseCode *)
GetNumErrorsByResponseCode(r, respCode) ==
    LET code == Itoa(respCode)
    IN  IF code \in DOMAIN r.NumErrorsByType THEN r.NumErrorsByType[code] ELSE 0

(* Request.IncrementErrorsByType, as the new map *)
\* variant: an existing count is set back to 1 instead of raised
IncrementErrorsByType_reset(m, errType) ==
    IF errType \in DOMAIN m
    THEN [m EXCEPT ![errType] = 1]
    ELSE (errType :> 1) @@ m

\* variant: a new key starts at 0
IncrementErrorsByType_fromZero(m, errType) ==
    IF errType \in DOMAIN m
    THEN [m EXCEPT ![errType] = @ + 1]
    ELSE (errType :> 0) @@ m

IncrementErrorsByType(m, errType) ==
    IF errType \in DOMAIN m
    THEN [m EXCEPT ![errType] = @ + 1]
    ELSE (errType :> 1) @@ m

EmptyMap == [k \in {} |-> 0]

----------------------------------------------------------------------------
(* Response handlers.  A handler is a record: kind, and for the retry      *)
(* handlers the retry bound and the retryable outcomes.                    *)

UserHandler(k) == [kind |-> k, RetryNum |-> 0, Retryable |-> {}]
UserKinds == {"Wrap", "Reject", "Recover"}

DefaultRetryResponseHandler ==
    [kind |-> "DefaultRetry", RetryNum |-> DefaultRetryNum,
     Retryable |-> {StatusTooManyRequests}]

ConfigurableRetryResponseHandler(n, fn) ==
    [kind |-> "ConfigRetry", RetryNum |-> n, Retryable |-> fn]

\* handlers that also implement ResponseOrErrorHandler
HasErrorCapability(h) == h.kind \in {"Recover", "ConfigRetry"}

RECURSIVE SeqsUpTo(_, _)
SeqsUpTo(S, n) ==
    IF n = 0 THEN {<< >>}
    ELSE LET shorter == SeqsUpTo(S, n - 1)
         IN  shorter \cup {Append(s, x) : s \in shorter, x \in S}

----------------------------------------------------------------------------
(* Strings of the URL builders are sequences of characters, so that        *)
(* strings.Contains, strings.HasPrefix and path.Join are computed.         *)

Empty == << >>
Dot == <<".">>
Slash == <<"/">>
DotDot == <<".", ".">>
system == <<"s", "y", "s", "t", "e", "m">>
SystemPrefix == <<"/", "s", "y", "s", "t", "e", "m", "/">>
RegionDash == <<"r", "e", "g", "i", "o", "n", "-">>
api == <<"a", "p", "i">>
https == <<"h", "t", "t", "p", "s">>
DefaultRootDomain == <<"s", "c", "p", ".", "s", "p", "l", "u", "n", "k", ".", "c", "o", "m">>

\* the texts the builders are called with
acme == <<"a", "c", "m", "e">>
sys == <<"s", "y", "s">>
tem == <<"t", "e", "m">>
us1 == <<"u", "s", "1">>
catalog == <<"c", "a", "t", "a", "l", "o", "g">>
exampleCom == <<"e", "x", "a", "m", "p", "l", "e", ".", "c", "o", "m">>
xTest == <<"x", ".", "t", "e", "s", "t">>
foo == <<"/", "f", "o", "o">>
temX == <<"t", "e", "m", "/", "x">>
slashSystem == <<"/", "s", "y", "s", "t", "e", "m">>

\* strings.Contains(s, substr)
Contains(s, substr) ==
    \E i \in 0..(Len(s) - Len(substr)) : SubSeq(s, i + 1, i + Len(substr)) = substr

\* strings.HasPrefix(s, prefix)
HasPrefix(s, prefix) ==
    Len(s) >= Len(prefix) /\ SubSeq(s, 1, Len(prefix)) = prefix

\* the elements of p between its slashes
RECURSIVE SplitSlash(_)
SplitSlash(p) ==
    IF p = Empty THEN <<Empty>>
    ELSE LET rest == SplitSlash(Tail(p))
         IN  IF Head(p) = "/"
             THEN <<Empty>> \o rest
             ELSE <<(<<Head(p)>> \o Head(rest))>> \o Tail(rest)

\* the elements, joined with single slashes
RECURSIVE JoinSlash(_)
JoinSlash(elems) ==
    IF elems = << >> THEN Empty
    ELSE IF Len(elems) = 1 THEN Head(elems)
    ELSE Head(elems) \o Slash \o JoinSlash(Tail(elems))

\* path.Clean's pass over the elements: empty and "." elements go, ".."
\* takes the element before it, or goes itself at the root
RECURSIVE CleanElems(_, _, _)
CleanElems(elems, out, rooted) ==
    IF elems = << >> THEN out
    ELSE LET e == Head(elems)
             rest == Tail(elems)
         IN  IF e = Empty \/ e = Dot
             THEN CleanElems(rest, out, rooted)
             ELSE IF e = DotDot
             THEN IF out # << >> /\ out[Len(out)] # DotDot
                  THEN CleanElems(rest, SubSeq(out, 1, Len(out) - 1), rooted)
                  ELSE IF rooted
                  THEN CleanElems(rest, out, rooted)
                  ELSE CleanElems(rest, Append(out, DotDot), rooted)
             ELSE CleanElems(rest, Append(out, e), rooted)

\* path.Clean
Clean(p) ==
    IF p = Empty THEN Dot
    ELSE LET rooted == Head(p) = "/"
             body == JoinSlash(CleanElems(SplitSlash(p), << >>, rooted))
             cleaned == (IF rooted THEN Slash ELSE Empty) \o body
         IN  IF cleaned = Empty THEN Dot ELSE cleaned

\* the buffer path.Join builds: leading empty elements are dropped, every
\* later element follows a slash
RECURSIVE JoinBuf(_, _)
JoinBuf(elem, buf) ==
    IF elem = << >> THEN buf
    ELSE LET e == Head(elem)
         IN  IF Len(buf) > 0
             THEN JoinBuf(Tail(elem), buf \o Slash \o e)
             ELSE JoinBuf(Tail(elem), e)

\* path.Join
Join(elem) ==
    IF \A k \in 1..Len(elem) : elem[k] = Empty
    THEN Empty
    ELSE Clean(JoinBuf(elem, Empty))

\* url.Values: nil, or a map from keys to one value each
EmptyValues == [k \in {} |-> Empty]
NilValues == [nil |-> TRUE, m |-> EmptyValues]
Values(m) == [nil |-> FALSE, m |-> m]
Alphabet == <<"a", "b", "q">>
CharIndex(ch) == CHOOSE i \in 1..Len(Alphabet) : Alphabet[i] = ch

\* url.Values.Encode: key=value pairs in the order of the keys, joined by &
\* (the characters used need no escaping)
RECURSIVE Encode(_)
Encode(v) ==
    IF DOMAIN v = {} THEN Empty
    ELSE LET k == CHOOSE x \in DOMAIN v :
                     \A y \in DOMAIN v : CharIndex(Head(x)) <= CharIndex(Head(y))
             rest == [y \in DOMAIN v \ {k} |-> v[y]]
         IN  k \o <<"=">> \o v[k]
               \o (IF DOMAIN rest = {} THEN Empty ELSE <<"&">> \o Encode(rest))

ErrEmptyTenant == "a non-empty tenant must be specified"
ErrRegionEmpty == "region cannot be empty"
ErrTemplateParse == "template parse error"
ErrTemplateExecute == "template execute error"

\* var u url.URL
ZeroURL == [Scheme |-> Empty, Host |-> Empty, Path |-> Empty, RawQuery |-> Empty]

----------------------------------------------------------------------------
(* Config and NewClient *)

NoRetryConfig == [set |-> FALSE, RetryNum |-> 0, ShouldRetryFn |-> {}]
RetryConfigOf(n, fn) == [set |-> TRUE, RetryNum |-> n, ShouldRetryFn |-> fn]

\* variant: RetryConfig is ignored, the default retry handler always used
NewClientHandlers_alwaysDefault(config) ==
    LET fromToken == IF config.Token # 0 THEN config.ResponseHandlers ELSE << >>
    IN  IF config.RetryRequests
        THEN <<DefaultRetryResponseHandler>> \o config.ResponseHandlers
        ELSE fromToken

\* the handler list NewClient registers (client.go:513-528)
NewClientHandlers(config) ==
    LET fromToken == IF config.Token # 0 THEN config.ResponseHandlers ELSE << >>
    IN  IF config.RetryRequests
        THEN IF ~config.RetryConfig.set
             THEN <<DefaultRetryResponseHandler>> \o config.ResponseHandlers
             ELSE <<ConfigurableRetryResponseHandler(config.RetryConfig.RetryNum,
                                                     config.RetryConfig.ShouldRetryFn)>>
                  \o config.ResponseHandlers
        ELSE fromToken

\* the token retriever NewClient installs: a static Token becomes a
\* NoOpTokenRetriever that always returns the same context (client.go:514-517)
NewClientRetriever(config) ==
    IF config.Token # 0 THEN "NoOp" ELSE "Dynamic"

\* the configuration is accepted (client.go:509-511)
TokenSourceValid(config) ==
    ~ (  (config.TokenRetriever /\ config.Token # 0)
      \/ (~config.TokenRetriever /\ config.Token = 0))

\* what GetTokenContext may return when it succeeds, at time t, as the
\* n-th token issued
RetrievedContexts(retriever, t, n) ==
    IF retriever = "NoOp"
    THEN {[AccessToken |-> StaticToken, StartTime |-> 0, ExpiresIn |-> 0]}
    ELSE {[AccessToken |-> n, StartTime |-> t, ExpiresIn |-> e] : e \in ExpiresInChoices}

RetryableChoices == {{StatusTooManyRequests}, {StatusServerError, TransportFailure}}

RetrySettings ==
    {[RetryRequests |-> FALSE, RetryConfig |-> NoRetryConfig],
     [RetryRequests |-> TRUE, RetryConfig |-> NoRetryConfig]}
    \cup {[RetryRequests |-> TRUE, RetryConfig |-> RetryConfigOf(n, fn)] :
            n \in 0..MaxRetryNum, fn \in RetryableChoices}

TokenSources ==
    {[Token |-> StaticToken, TokenRetriever |-> FALSE],
     [Token |-> 0, TokenRetriever |-> TRUE]}

\* a Config; the fields of the URL builders are left at their zero values
MakeConfig(src, hs, rs) ==
    [Token |-> src.Token, TokenRetriever |-> src.TokenRetriever,
     ResponseHandlers |-> hs,
     RetryRequests |-> rs.RetryRequests, RetryConfig |-> rs.RetryConfig,
     Host |-> Empty, OverrideHost |-> Empty, Scheme |-> Empty,
     Tenant |-> Empty, TenantScoped |-> FALSE, Region |-> Empty]

\* config.TokenRetriever = &idp.NoOpTokenRetriever{...}: NewClient writes the
\* no-op retriever into the caller's Config (client.go:514-516)
NewClientConfig(config) ==
    IF config.Token # 0 THEN [config EXCEPT !.TokenRetriever = TRUE] ELSE config

ErrHosts == "either config.Host or config.OverrideHost may be set, setting both is invalid"
ErrTokenSource == "either config.TokenRetriever or config.Token must be set, not both"
ErrNewClient == "service.NewClient: error retrieving token"

\* at most one of Host and OverrideHost (client.go:478-480)
HostValid(config) == ~(config.Host # Empty /\ config.OverrideHost # Empty)

\* rootDomain, overrideHost and scheme as NewClient sets them (client.go:481-494)
NewClientRootDomain(config) ==
    IF config.Host # Empty THEN config.Host ELSE DefaultRootDomain

NewClientOverrideHost(config) ==
    IF config.OverrideHost # Empty THEN config.OverrideHost ELSE Empty

NewClientScheme(config) ==
    IF config.Scheme # Empty THEN config.Scheme ELSE https

\* configurations for the handler-chain runs: every handler list and policy
ChainConfigs ==
    {MakeConfig(src, hs, rs) :
        src \in TokenSources,
        hs \in SeqsUpTo({UserHandler(k) : k \in UserKinds}, MaxHandlers),
        rs \in RetrySettings}

\* configurations for the runs under fairness: every retry policy, with at
\* most one more handler
RetryConfigs ==
    {MakeConfig(src, hs, rs) :
        src \in TokenSources,
        hs \in SeqsUpTo({UserHandler(k) : k \in UserKinds}, 1),
        rs \in RetrySettings}

\* configurations for the concurrent runs: both token sources without
\* handlers, and a static token with one retry handler
TokenConfigs ==
    {MakeConfig(src, << >>, rs) :
        src \in TokenSources,
        rs \in {r \in RetrySettings : ~r.RetryRequests}}
    \cup {MakeConfig([Token |-> StaticToken, TokenRetriever |-> FALSE], << >>,
                     [RetryRequests |-> TRUE,
                      RetryConfig |-> RetryConfigOf(1, {StatusTooManyRequests})])}

----------------------------------------------------------------------------
(* The URL builders (client.go:188-277), as functions of the client's      *)
(* fields c and their arguments.                                           *)

\* BaseClient.BuildHost
\* variant: the prefix is put before the override host too
BuildHost_prefixOverride(c, serviceCluster, appendToHost) ==
    LET prefix == IF appendToHost # Empty THEN appendToHost \o Dot ELSE appendToHost
    IN  IF c.overrideHost # Empty
        THEN prefix \o c.overrideHost
        ELSE IF serviceCluster # Empty
        THEN prefix \o serviceCluster \o Dot \o c.rootDomain
        ELSE prefix \o api \o Dot \o c.rootDomain

BuildHost(c, serviceCluster, appendToHost) ==
    LET prefix == IF appendToHost # Empty THEN appendToHost \o Dot ELSE appendToHost
    IN  IF c.overrideHost # Empty
        THEN c.overrideHost
        ELSE IF serviceCluster # Empty
        THEN prefix \o serviceCluster \o Dot \o c.rootDomain
        ELSE prefix \o api \o Dot \o c.rootDomain

\* queryValues.Encode(), after if queryValues == nil { queryValues = url.Values{} }
RawQueryOf(queryValues) ==
    Encode(IF queryValues.nil THEN EmptyValues ELSE queryValues.m)

\* appendToHost of BuildURLWithTenant (client.go:221-226)
\* variant: "system" is looked for at the start of the path only
AppendToHostWithTenant_prefixOnly(tenant, tenantScoped, region, pathWithTenant) ==
    IF tenantScoped = TRUE /\ region # Empty /\ HasPrefix(pathWithTenant, system)
    THEN region
    ELSE IF tenantScoped = TRUE /\ ~HasPrefix(pathWithTenant, system)
    THEN tenant
    ELSE Empty

\* variant: a tenant-scoped client with a region always uses the region
AppendToHostWithTenant_regionFirst(tenant, tenantScoped, region, pathWithTenant) ==
    IF tenantScoped = TRUE /\ region # Empty
    THEN region
    ELSE IF tenantScoped = TRUE /\ ~Contains(pathWithTenant, system)
    THEN tenant
    ELSE Empty

AppendToHostWithTenant(tenant, tenantScoped, region, pathWithTenant) ==
    IF tenantScoped = TRUE /\ region # Empty /\ Contains(pathWithTenant, system)
    THEN region
    ELSE IF tenantScoped = TRUE /\ ~Contains(pathWithTenant, system)
    THEN tenant
    ELSE Empty

\* BaseClient.BuildURLWithTenant
\* variant: the empty tenant is not rejected
BuildURLWithTenant_anyTenant(c, tenant, tenantScoped, region, queryValues, serviceCluster, urlPathParts) ==
    LET pathWithTenant == Join(<<tenant>> \o urlPathParts)
        appendToHost == AppendToHostWithTenant(tenant, tenantScoped, region,
                                               pathWithTenant)
        host == BuildHost(c, serviceCluster, appendToHost)
    IN  [u |-> [Scheme |-> c.scheme, Host |-> host, Path |-> pathWithTenant,
                RawQuery |-> RawQueryOf(queryValues)],
         err |-> NoErr]

BuildURLWithTenant(c, tenant, tenantScoped, region, queryValues, serviceCluster, urlPathParts) ==
    IF Len(tenant) = 0
    THEN [u |-> ZeroURL, err |-> ErrEmptyTenant]
    ELSE LET pathWithTenant == Join(<<tenant>> \o urlPathParts)
             appendToHost == AppendToHostWithTenant(tenant, tenantScoped, region,
                                                    pathWithTenant)
             host == BuildHost(c, serviceCluster, appendToHost)
         IN  [u |-> [Scheme |-> c.scheme, Host |-> host, Path |-> pathWithTenant,
                     RawQuery |-> RawQueryOf(queryValues)],
              err |-> NoErr]

\* BaseClient.BuildURL
BuildURL(c, queryValues, serviceCluster, urlPathParts) ==
    BuildURLWithTenant(c, c.defaultTenant, c.tenantScoped, c.region, queryValues,
                       serviceCluster, urlPathParts)

\* A path template is a sequence of literal texts and field references;
\* template.Parse fails on a malformed one, Execute on a field the
\* parameters do not have.
Lit(text) == [lit |-> text, field |-> ""]
Field(name) == [lit |-> Empty, field |-> name]
Template(pieces) == [malformed |-> FALSE, pieces |-> pieces]
MalformedTemplate == [malformed |-> TRUE, pieces |-> << >>]

RECURSIVE Execute(_, _)
Execute(pieces, pathParams) ==
    IF pieces = << >> THEN [out |-> Empty, err |-> NoErr]
    ELSE LET p == Head(pieces)
             rest == Execute(Tail(pieces), pathParams)
         IN  IF p.field # "" /\ p.field \notin DOMAIN pathParams
             THEN [out |-> Empty, err |-> ErrTemplateExecute]
             ELSE IF rest.err # NoErr THEN rest
             ELSE [out |-> (IF p.field # "" THEN pathParams[p.field] ELSE p.lit)
                              \o rest.out,
                   err |-> NoErr]

\* path of BuildURLFromPathParams after the tenant namespace is added
\* (client.go:250-254)
\* variant: the tenant namespace is never added
PathWithNamespace_never(c, rendered) ==
    rendered

PathWithNamespace(c, rendered) ==
    IF ~HasPrefix(rendered, SystemPrefix)
    THEN Slash \o c.defaultTenant \o rendered
    ELSE rendered

\* appendToHost of BuildURLFromPathParams (client.go:264-268)
\* variant: the region itself, as in BuildURLWithTenant
AppendToHostFromPath_bareRegion(c, path) ==
    IF c.tenantScoped = TRUE /\ c.region # Empty /\ HasPrefix(path, SystemPrefix)
    THEN c.region
    ELSE IF c.tenantScoped = TRUE /\ ~HasPrefix(path, SystemPrefix)
    THEN c.defaultTenant
    ELSE Empty

AppendToHostFromPath(c, path) ==
    IF c.tenantScoped = TRUE /\ c.region # Empty /\ HasPrefix(path, SystemPrefix)
    THEN RegionDash \o c.region
    ELSE IF c.tenantScoped = TRUE /\ ~HasPrefix(path, SystemPrefix)
    THEN c.defaultTenant
    ELSE Empty

\* BaseClient.BuildURLFromPathParams
BuildURLFromPathParams(c, queryValues, serviceCluster, templ, pathParams) ==
    IF templ.malformed
    THEN [u |-> ZeroURL, err |-> ErrTemplateParse]
    ELSE LET buf == Execute(templ.pieces, pathParams)
         IN  IF buf.err # NoErr
             THEN [u |-> ZeroURL, err |-> buf.err]
             ELSE LET path == PathWithNamespace(c, buf.out)
                  IN  IF c.tenantScoped = TRUE /\ c.region = Empty
                            /\ HasPrefix(path, SystemPrefix)
                      THEN [u |-> ZeroURL, err |-> ErrRegionEmpty]
                      ELSE [u |-> [Scheme |-> c.scheme,
                                   Host |-> BuildHost(c, serviceCluster,
                                                      AppendToHostFromPath(c, path)),
                                   Path |-> path,
                                   RawQuery |-> RawQueryOf(queryValues)],
                            err |-> NoErr]

----------------------------------------------------------------------------
(* State *)

VARIABLES
    now,               \* wall clock, seconds
    issued,            \* number of token contexts the retriever has issued
    callsStarted,      \* number of DoRequest calls started
    goroutines,        \* the callers that share the client
    config,            \* the Config the client was constructed from
    \* BaseClient
    tokenContext, tokenMux, responseHandlers, tokenRetriever,
    \* per caller: position and locals of DoRequest / Do
    pc, curEpoch, startTime, ctx, hasToken, request, stack, retval, result,
    numRetries,
    \* per caller: history of the current call
    retrieverCalls, contended, heldSnapshot, freshAtCheck, staleSeen,
    lastSent, outcomes, translated,
    \* BaseClient: the fields the URL builders read
    rootDomain, overrideHost, scheme, defaultTenant, tenantScoped, region,
    \* the builder call under study and, per caller, what it returned
    urlArgs, urlOut,
    \* the call of NewClient: its position, locals and what it returned
    newClient,
    \* per caller: the RequestParams of the call, from the time DoRequest reads
    \* them until the request is built from them or the call returns
    requestParams,
    \* per caller: the snapshot that the first of two loads of c.tokenContext
    \* found, until the second load is made
    loaded,
    \* per caller: how many times HandleResponse of handler h has been called
    \* on the response of attempt n in the current call, under <<h, n>>
    handled

clientVars == <<tokenContext, tokenMux, responseHandlers, tokenRetriever>>
localVars == <<pc, curEpoch, startTime, ctx, hasToken, request, stack, retval,
               result, numRetries>>
historyVars == <<retrieverCalls, contended, heldSnapshot, freshAtCheck,
                 staleSeen, lastSent, outcomes, translated>>
urlFields == <<rootDomain, overrideHost, scheme, defaultTenant, tenantScoped, region>>
urlVars == <<urlArgs, urlOut>>
callVars == <<requestParams, loaded, handled>>
vars == <<now, issued, callsStarted, goroutines, config, clientVars, localVars,
          historyVars, urlFields, urlVars, newClient, callVars>>

NoRequest == [NumAttempts |-> 0, NumErrorsByType |-> EmptyMap, auth |-> NoCtx]
NoResult == [resp |-> NoResp, err |-> NoErr]
NoSend == [auth |-> NoCtx, at |-> 0, n |-> 0]
NoRequestParams == [multipart |-> FALSE, Body |-> "none"]

QueryChoices ==
    {NilValues, Values(<<"q">> :> <<"1">>),
     Values((<<"b">> :> <<"2">>) @@ (<<"a">> :> <<"1">>))}
NoParams == [k \in {} |-> Empty]
NoArgs == [fn |-> "none", serviceCluster |-> Empty, appendToHost |-> Empty,
           tenant |-> Empty, tenantScoped |-> FALSE, region |-> Empty,
           queryValues |-> NilValues, urlPathParts |-> << >>,
           templ |-> MalformedTemplate, pathParams |-> NoParams]
\* mux: the holder of the token lock when the builder returned
NoOut == [called |-> FALSE, host |-> Empty, u |-> ZeroURL, err |-> NoErr,
          mux |-> Free]

\* no DoRequest is running and no builder has been called
InitCallers ==
    /\ urlOut = [c \in Callers |-> NoOut]
    /\ pc = [c \in Callers |-> "idle"]
    /\ curEpoch = [c \in Callers |-> 0]
    /\ startTime = [c \in Callers |-> 0]
    /\ ctx = [c \in Callers |-> NoCtx]
    /\ hasToken = [c \in Callers |-> FALSE]
    /\ request = [c \in Callers |-> NoRequest]
    /\ stack = [c \in Callers |-> << >>]
    /\ retval = [c \in Callers |-> NoResult]
    /\ result = [c \in Callers |-> NoResult]
    /\ numRetries = [c \in Callers |-> 0]
    /\ retrieverCalls = [c \in Callers |-> 0]
    /\ contended = [c \in Callers |-> FALSE]
    /\ heldSnapshot = [c \in Callers |-> NoCtx]
    /\ freshAtCheck = [c \in Callers |-> FALSE]
    /\ staleSeen = [c \in Callers |-> FALSE]
    /\ lastSent = [c \in Callers |-> NoSend]
    /\ outcomes = [c \in Callers |-> << >>]
    /\ translated = [c \in Callers |-> 0]
    /\ requestParams = [c \in Callers |-> NoRequestParams]
    /\ loaded = [c \in Callers |-> NoCtx]
    /\ handled = [c \in Callers |-> EmptyMap]

\* NewClient before it is called, and after it returned a client built from
\* the configuration given, with the first context got
\*   given  the Config as it was passed
\*   handlers  the local handlers;  got  the context retrieved
\*   retrieverCalls  calls of GetTokenContext made;  client  a client was returned
NotCalled(given) ==
    [pc |-> "start", given |-> given, handlers |-> << >>, retrieverCalls |-> 0,
     got |-> NoCtx, err |-> NoErr, client |-> FALSE]

Constructed(given, got) ==
    [pc |-> "returned", given |-> given, handlers |-> NewClientHandlers(given),
     retrieverCalls |-> 1, got |-> got, err |-> NoErr, client |-> TRUE]

\* the client is constructed at time t0 from one of the configurations, its
\* first token context expiring after one of expiresIn
InitClient(configs, callers, t0, calls0, expiresIn) ==
    /\ now = t0
    /\ issued = 1
    /\ callsStarted = calls0
    /\ goroutines = callers
    /\ \E given \in configs :
          /\ HostValid(given)
          /\ TokenSourceValid(given)
          /\ config = NewClientConfig(given)
          /\ tokenContext \in {x \in RetrievedContexts(NewClientRetriever(given), t0, 1) :
                                  x.ExpiresIn \in expiresIn \cup {0}}
          /\ newClient = Constructed(given, tokenContext)
    /\ rootDomain = NewClientRootDomain(config)
    /\ overrideHost = NewClientOverrideHost(config)
    /\ scheme = NewClientScheme(config)
    /\ defaultTenant = config.Tenant
    /\ tenantScoped = config.TenantScoped
    /\ region = config.Region
    /\ responseHandlers = NewClientHandlers(config)
    /\ tokenRetriever = NewClientRetriever(config)
    /\ tokenMux = Free
    /\ InitCallers

\* ... and no URL builder is called
InitWith(configs, callers, t0, calls0, expiresIn) ==
    /\ InitClient(configs, callers, t0, calls0, expiresIn)
    /\ urlArgs = NoArgs

HostChoices ==
    {[Host |-> Empty, OverrideHost |-> Empty],
     [Host |-> exampleCom, OverrideHost |-> Empty],
     [Host |-> Empty, OverrideHost |-> xTest]}
Tenants == {Empty, acme, system, sys}
Regions == {Empty, us1}
Clusters == {Empty, catalog}
Segments == {Empty, catalog, system, DotDot, tem}

NameTemplate == Template(<<Lit(Slash), Field("Name"), Lit(foo)>>)
TemplateChoices ==
    {[templ |-> MalformedTemplate, pathParams |-> NoParams],
     [templ |-> NameTemplate, pathParams |-> NoParams],
     [templ |-> NameTemplate, pathParams |-> ("Name" :> system)],
     [templ |-> NameTemplate, pathParams |-> ("Name" :> catalog)],
     [templ |-> Template(<<Lit(temX)>>), pathParams |-> NoParams],
     [templ |-> Template(<<Lit(slashSystem)>>), pathParams |-> NoParams]}

\* the client of the builder runs: a static token, no handlers
BuilderConfig(h) ==
    [MakeConfig([Token |-> StaticToken, TokenRetriever |-> FALSE], << >>,
                [RetryRequests |-> FALSE, RetryConfig |-> NoRetryConfig])
        EXCEPT !.Host = h.Host, !.OverrideHost = h.OverrideHost]

\* the arguments of a call of BuildHost
HostArgs(sc, a) ==
    [NoArgs EXCEPT !.fn = "BuildHost", !.serviceCluster = sc, !.appendToHost = a]

\* ... of BuildURLWithTenant
TenantArgs(x, parts) ==
    [NoArgs EXCEPT !.fn = "BuildURLWithTenant", !.serviceCluster = x.sc,
                   !.tenant = x.t, !.tenantScoped = x.ts, !.region = x.r,
                   !.queryValues = x.q, !.urlPathParts = parts]

\* ... of BuildURLFromPathParams
TemplateArgs(x, tp) ==
    [NoArgs EXCEPT !.fn = "BuildURLFromPathParams", !.serviceCluster = x.sc,
                   !.queryValues = x.q, !.templ = tp.templ,
                   !.pathParams = tp.pathParams]

Settings == [sc : Clusters, t : Tenants, ts : BOOLEAN, r : Regions, q : QueryChoices]

\* one caller makes one builder call on a client that sends no request
InitBuilder(cfg, args) ==
    /\ InitClient({cfg}, {"g1"}, 0, MaxCalls, {0})
    /\ urlArgs = args

InitURL ==
    \E h \in HostChoices :
        \/ \E sc \in Clusters, a \in {Empty, acme, us1} :
              InitBuilder(BuilderConfig(h), HostArgs(sc, a))
        \/ \E x \in Settings, parts \in SeqsUpTo(Segments, MaxParts) :
              InitBuilder(BuilderConfig(h), TenantArgs(x, parts))
        \/ \E x \in Settings, tp \in TemplateChoices :
              InitBuilder([BuilderConfig(h) EXCEPT !.Tenant = x.t,
                                                  !.TenantScoped = x.ts,
                                                  !.Region = x.r],
                          TemplateArgs(x, tp))

\* the client of the runs of builders next to DoRequest: a token retriever
\* and a retry policy, tenant-scoped in a region
SharedConfig(h) ==
    [MakeConfig([Token |-> 0, TokenRetriever |-> TRUE], << >>,
                [RetryRequests |-> TRUE,
                 RetryConfig |-> RetryConfigOf(1, {StatusTooManyRequests})])
        EXCEPT !.Host = h.Host, !.OverrideHost = h.OverrideHost,
               !.Tenant = acme, !.TenantScoped = TRUE, !.Region = us1]

SharedArgs ==
    LET x == [sc |-> catalog, t |-> acme, ts |-> TRUE, r |-> us1, q |-> NilValues]
    IN  {HostArgs(catalog, acme),
         TenantArgs(x, <<catalog, system>>),
         TemplateArgs(x, [templ |-> NameTemplate, pathParams |-> ("Name" :> system)])}

\* two callers share the client: each may call the builder once and one of
\* them makes a DoRequest call
InitShared ==
    /\ InitClient({SharedConfig(h) : h \in {x \in HostChoices : x.Host = Empty}},
                  Callers, 0, MaxCalls - 1, ExpiresInChoices)
    /\ urlArgs \in SharedArgs

\* concurrent callers, from the construction of the client on
Init == InitWith(TokenConfigs, Callers, 0, 0, ExpiresInChoices)

\* one caller and one logical call, every retry policy
InitRetry == InitWith(RetryConfigs, {"g1"}, 0, MaxCalls - 1, ExpiresInChoices)

\* one caller and one logical call, every handler list and retry policy
InitChain == InitWith(ChainConfigs, {"g1"}, 0, MaxCalls - 1, ExpiresInChoices)

\* two callers make one call each with a token that is always inside its
\* expiry window, so that both go for the lock
InitLock == InitWith(TokenConfigs, Callers, 0, MaxCalls - 2, {0})

\* every combination of hosts and of token sources, valid or not
AllHostChoices == HostChoices \cup {[Host |-> exampleCom, OverrideHost |-> xTest]}
AllTokenSources ==
    TokenSources \cup {[Token |-> StaticToken, TokenRetriever |-> TRUE],
                       [Token |-> 0, TokenRetriever |-> FALSE]}

\* what NewClient may be called with
NewConfigs ==
    {[MakeConfig(src, hs, rs) EXCEPT !.Host = h.Host, !.OverrideHost = h.OverrideHost] :
        src \in AllTokenSources,
        h \in AllHostChoices,
        hs \in SeqsUpTo({UserHandler("Wrap")}, 1),
        rs \in {[RetryRequests |-> FALSE, RetryConfig |-> NoRetryConfig],
                [RetryRequests |-> TRUE,
                 RetryConfig |-> RetryConfigOf(1, {StatusTooManyRequests})]}}

\* the callers that get the client NewClient returns
NewCallers == {"g1"}

\* no client yet: NewClient is about to be called with one of the
\* configurations; the client it returns makes one DoRequest call
InitNew ==
    /\ now = 0
    /\ issued = 0
    /\ callsStarted = MaxCalls - 1
    /\ goroutines = {}
    /\ config \in NewConfigs
    /\ newClient = NotCalled(config)
    /\ tokenContext = NoCtx
    /\ tokenMux = Free
    /\ responseHandlers = << >>
    /\ tokenRetriever = "nil"
    /\ rootDomain = Empty
    /\ overrideHost = Empty
    /\ scheme = Empty
    /\ defaultTenant = Empty
    /\ tenantScoped = FALSE
    /\ region = Empty
    /\ urlArgs = NoArgs
    /\ InitCallers

----------------------------------------------------------------------------
(* DoRequest: token freshness and refresh (client.go:352-368) *)

Running(c) == pc[c] \notin {"idle", "done"}

\* curEpoch >= c.tokenContext.StartTime+int64(c.tokenContext.ExpiresIn)
\* variant: the comparison is strict
IsStale_strict(epoch, start, expiresIn) == epoch > start + expiresIn

IsStale(epoch, start, expiresIn) == epoch >= start + expiresIn

\* now := time.Now().Add(c.tokenExpireWindow); curEpoch := now.Unix(); and the
\* first load of c.tokenContext (its StartTime), taken without the lock
StartDoRequest(c) ==
    /\ c \in goroutines
    /\ pc[c] = "idle"
    /\ callsStarted < MaxCalls
    /\ callsStarted' = callsStarted + 1
    /\ curEpoch' = [curEpoch EXCEPT ![c] = now + TokenExpireWindow]
    /\ startTime' = [startTime EXCEPT ![c] = tokenContext.StartTime]
    /\ loaded' = [loaded EXCEPT ![c] = tokenContext]
    /\ contended' = [d \in Callers |->
                        IF d = c THEN \E e \in Callers \ {c} : Running(e)
                        ELSE IF Running(d) THEN TRUE ELSE contended[d]]
    /\ pc' = [pc EXCEPT ![c] = "check"]
    /\ UNCHANGED <<newClient, handled, requestParams, urlFields, urlVars, now, issued, goroutines, config, clientVars, ctx, hasToken, request,
                   stack, retval, result, numRetries, retrieverCalls,
                   heldSnapshot, freshAtCheck, staleSeen, lastSent, outcomes,
                   translated>>

\* the second load of c.tokenContext (its ExpiresIn) and the comparison
CheckFreshness(c) ==
    /\ pc[c] = "check"
    /\ LET stale == IsStale(curEpoch[c], startTime[c], tokenContext.ExpiresIn)
       IN  /\ staleSeen' = [staleSeen EXCEPT ![c] = stale]
           /\ pc' = [pc EXCEPT ![c] = IF stale THEN "lock" ELSE "build"]
    /\ curEpoch' = [curEpoch EXCEPT ![c] = 0]
    /\ startTime' = [startTime EXCEPT ![c] = 0]
    /\ loaded' = [loaded EXCEPT ![c] = NoCtx]
    /\ freshAtCheck' = [freshAtCheck EXCEPT ![c] =
                          curEpoch[c] < tokenContext.StartTime + tokenContext.ExpiresIn]
    /\ UNCHANGED <<newClient, handled, requestParams, urlFields, urlVars, now, issued, callsStarted, goroutines, config, clientVars, ctx,
                   hasToken, request, stack, retval, result, numRetries,
                   retrieverCalls, contended, heldSnapshot, lastSent, outcomes,
                   translated>>

\* c.tokenMux.Lock()
\* variant: the lock is taken without waiting for its holder
Lock_nowait(c) ==
    /\ pc[c] = "lock"
    /\ tokenMux' = c
    /\ heldSnapshot' = [heldSnapshot EXCEPT ![c] = tokenContext]
    /\ pc' = [pc EXCEPT ![c] = "retrieve"]
    /\ UNCHANGED <<newClient, requestParams, loaded, handled, urlFields, urlVars, now, issued, callsStarted, goroutines, config, tokenContext,
                   responseHandlers, tokenRetriever, curEpoch, startTime, ctx,
                   hasToken, request, stack, retval, result, numRetries,
                   retrieverCalls, contended, freshAtCheck, staleSeen, lastSent,
                   outcomes, translated>>

Lock(c) ==
    /\ pc[c] = "lock"
    /\ tokenMux = Free
    /\ tokenMux' = c
    /\ heldSnapshot' = [heldSnapshot EXCEPT ![c] = tokenContext]
    /\ pc' = [pc EXCEPT ![c] = "retrieve"]
    /\ UNCHANGED <<newClient, requestParams, loaded, handled, urlFields, urlVars, now, issued, callsStarted, goroutines, config, tokenContext,
                   responseHandlers, tokenRetriever, curEpoch, startTime, ctx,
                   hasToken, request, stack, retval, result, numRetries,
                   retrieverCalls, contended, freshAtCheck, staleSeen, lastSent,
                   outcomes, translated>>

\* ctx, err := c.tokenRetriever.GetTokenContext(): the retriever succeeds
RetrieveOk(c) ==
    /\ issued' = IF tokenRetriever = "NoOp" THEN issued ELSE issued + 1
    /\ \E got \in RetrievedContexts(tokenRetriever, now, issued') :
          ctx' = [ctx EXCEPT ![c] = got]
    /\ pc' = [pc EXCEPT ![c] = "install"]

\* ... or fails (a NoOpTokenRetriever never does)
RetrieveFail(c) ==
    /\ tokenRetriever # "NoOp"
    /\ issued' = issued
    /\ ctx' = [ctx EXCEPT ![c] = NoCtx]
    /\ pc' = [pc EXCEPT ![c] = "unlockErr"]

\* variant: the retriever is not asked when some other caller has installed
\* a fresh snapshot since the freshness check
Retrieve_recheck(c) ==
    /\ pc[c] = "retrieve"
    /\ IF ~IsStale(now + TokenExpireWindow, tokenContext.StartTime, tokenContext.ExpiresIn)
       THEN /\ retrieverCalls' = retrieverCalls
            /\ issued' = issued
            /\ ctx' = [ctx EXCEPT ![c] = tokenContext]
            /\ pc' = [pc EXCEPT ![c] = "install"]
       ELSE /\ retrieverCalls' = [retrieverCalls EXCEPT ![c] = @ + 1]
            /\ (RetrieveOk(c) \/ RetrieveFail(c))
    /\ UNCHANGED <<newClient, requestParams, loaded, handled, urlFields, urlVars, now, callsStarted, goroutines, config, clientVars, curEpoch, startTime,
                   hasToken, request, stack, retval, result, numRetries,
                   contended, heldSnapshot, freshAtCheck, staleSeen, lastSent,
                   outcomes, translated>>

Retrieve(c) ==
    /\ pc[c] = "retrieve"
    /\ retrieverCalls' = [retrieverCalls EXCEPT ![c] = @ + 1]
    /\ (RetrieveOk(c) \/ RetrieveFail(c))
    /\ UNCHANGED <<newClient, requestParams, loaded, handled, urlFields, urlVars, now, callsStarted, goroutines, config, clientVars, curEpoch, startTime,
                   hasToken, request, stack, retval, result, numRetries,
                   contended, heldSnapshot, freshAtCheck, staleSeen, lastSent,
                   outcomes, translated>>

\* c.UpdateTokenContext(ctx): c.tokenContext = ctx
UpdateTokenContext(c) ==
    /\ pc[c] = "install"
    /\ tokenContext' = ctx[c]
    /\ pc' = [pc EXCEPT ![c] = "unlock"]
    /\ UNCHANGED <<newClient, requestParams, loaded, handled, urlFields, urlVars, now, issued, callsStarted, goroutines, config, tokenMux,
                   responseHandlers, tokenRetriever, curEpoch, startTime, ctx,
                   hasToken, request, stack, retval, result, numRetries,
                   historyVars>>

\* c.tokenMux.Unlock() after the installation
\* variant: the lock is kept while the request is built and sent
Unlock_forgotten(c) ==
    /\ pc[c] = "unlock"
    /\ tokenMux' = tokenMux
    /\ pc' = [pc EXCEPT ![c] = "build"]
    /\ UNCHANGED <<newClient, requestParams, loaded, handled, urlFields, urlVars, now, issued, callsStarted, goroutines, config, tokenContext,
                   responseHandlers, tokenRetriever, curEpoch, startTime, ctx,
                   hasToken, request, stack, retval, result, numRetries,
                   historyVars>>

Unlock(c) ==
    /\ pc[c] = "unlock"
    /\ tokenMux' = Free
    /\ pc' = [pc EXCEPT ![c] = "build"]
    /\ UNCHANGED <<newClient, requestParams, loaded, handled, urlFields, urlVars, now, issued, callsStarted, goroutines, config, tokenContext,
                   responseHandlers, tokenRetriever, curEpoch, startTime, ctx,
                   hasToken, request, stack, retval, result, numRetries,
                   historyVars>>

\* if err != nil { c.tokenMux.Unlock(); return nil, err }
\* variant: the error return forgets Unlock()
UnlockErr_keep(c) ==
    /\ pc[c] = "unlockErr"
    /\ tokenMux' = tokenMux
    /\ result' = [result EXCEPT ![c] = [resp |-> NoResp, err |-> ErrRetrieve]]
    /\ pc' = [pc EXCEPT ![c] = "done"]
    /\ UNCHANGED <<newClient, requestParams, loaded, handled, urlFields, urlVars, now, issued, callsStarted, goroutines, config, tokenContext,
                   responseHandlers, tokenRetriever, curEpoch, startTime, ctx,
                   hasToken, request, stack, retval, numRetries, historyVars>>

\* variant: the retriever's error is dropped and the request built anyway
UnlockErr_proceed(c) ==
    /\ pc[c] = "unlockErr"
    /\ tokenMux' = Free
    /\ pc' = [pc EXCEPT ![c] = "build"]
    /\ UNCHANGED <<newClient, requestParams, loaded, handled, urlFields, urlVars, now, issued, callsStarted, goroutines, config, tokenContext,
                   responseHandlers, tokenRetriever, curEpoch, startTime, ctx,
                   hasToken, request, stack, retval, result, numRetries,
                   historyVars>>

UnlockErr(c) ==
    /\ pc[c] = "unlockErr"
    /\ tokenMux' = Free
    /\ result' = [result EXCEPT ![c] = [resp |-> NoResp, err |-> ErrRetrieve]]
    /\ pc' = [pc EXCEPT ![c] = "done"]
    /\ UNCHANGED <<newClient, requestParams, loaded, handled, urlFields, urlVars, now, issued, callsStarted, goroutines, config, tokenContext,
                   responseHandlers, tokenRetriever, curEpoch, startTime, ctx,
                   hasToken, request, stack, retval, numRetries, historyVars>>

----------------------------------------------------------------------------
(* DoRequest: building the request (client.go:370-405), NewRequest (162-186) *)

ErrCopy == "stream read error"

\* the RequestParams a call may come with
\*   multipart  Headers["Content-Type"] == "multipart/form-data"
\*   Body  nil, a []byte, a FormData, or a value json.Marshal accepts or not
ParamChoices ==
    {[multipart |-> FALSE, Body |-> "nil"],
     [multipart |-> FALSE, Body |-> "unmarshalable"],
     [multipart |-> TRUE, Body |-> "FormData"],
     [multipart |-> TRUE, Body |-> "bytes"]}

\* the errors the encoding of the body may end with (client.go:370-393 and
\* makeFormRequest, 414-429); NoErr when NewRequest is reached
\* variant: a multipart request whose body is no FormData is sent as JSON
BodyErrors_lenient(p) ==
    IF p.multipart /\ p.Body = "FormData"
    THEN {NoErr, ErrCopy}
    ELSE IF p.Body \in {"nil", "bytes"}
    THEN {NoErr}
    ELSE IF p.Body = "unmarshalable" THEN {ErrMarshal} ELSE {NoErr}

BodyErrors(p) ==
    IF p.multipart
    THEN IF p.Body # "FormData" THEN {ErrForm} ELSE {NoErr, ErrCopy}
    ELSE IF p.Body \in {"nil", "bytes"}
    THEN {NoErr}
    ELSE IF p.Body = "unmarshalable" THEN {ErrMarshal} ELSE {NoErr}

\* the body is encoded; makeFormRequest and json.Marshal may fail before
\* NewRequest is reached.  Otherwise NewRequest begins: the test
\* c.tokenContext != nil && len(c.tokenContext.AccessToken) > 0
BuildRequest(c) ==
    /\ pc[c] = "build"
    /\ \E p \in ParamChoices : \E err \in BodyErrors(p) :
         /\ requestParams' = [requestParams EXCEPT ![c] = p]
         /\ IF err = NoErr
            THEN /\ hasToken' = [hasToken EXCEPT ![c] = tokenContext.AccessToken # 0]
                 /\ loaded' = [loaded EXCEPT ![c] = tokenContext]
                 /\ pc' = [pc EXCEPT ![c] = "newRequest"]
                 /\ result' = result
            ELSE /\ hasToken' = hasToken
                 /\ loaded' = loaded
                 /\ result' = [result EXCEPT ![c] = [resp |-> NoResp, err |-> err]]
                 /\ pc' = [pc EXCEPT ![c] = "done"]
    /\ UNCHANGED <<newClient, handled, urlFields, urlVars, now, issued, callsStarted, goroutines, config, clientVars, curEpoch,
                   startTime, ctx, request, stack, retval, numRetries,
                   historyVars>>

\* variant: the header is written from the context this call retrieved
NewRequest_ownContext(c) ==
    /\ pc[c] = "newRequest"
    /\ request' = [request EXCEPT ![c] =
                     [NumAttempts |-> 0, NumErrorsByType |-> EmptyMap,
                      auth |-> IF ~hasToken[c] THEN NoCtx
                               ELSE IF ctx[c] # NoCtx THEN ctx[c] ELSE tokenContext]]
    /\ requestParams' = [requestParams EXCEPT ![c] = NoRequestParams]
    /\ loaded' = [loaded EXCEPT ![c] = NoCtx]
    /\ pc' = [pc EXCEPT ![c] = "send"]
    /\ UNCHANGED <<newClient, handled, urlFields, urlVars, now, issued, callsStarted, goroutines, config, clientVars, curEpoch,
                   startTime, ctx, hasToken, stack, retval, result, numRetries,
                   historyVars>>

NewRequest(c) ==
    /\ pc[c] = "newRequest"
    /\ request' = [request EXCEPT ![c] =
                     [NumAttempts |-> 0, NumErrorsByType |-> EmptyMap,
                      auth |-> IF hasToken[c] THEN tokenContext ELSE NoCtx]]
    /\ requestParams' = [requestParams EXCEPT ![c] = NoRequestParams]
    /\ loaded' = [loaded EXCEPT ![c] = NoCtx]
    /\ pc' = [pc EXCEPT ![c] = "send"]
    /\ UNCHANGED <<newClient, handled, urlFields, urlVars, now, issued, callsStarted, goroutines, config, clientVars, curEpoch,
                   startTime, ctx, hasToken, stack, retval, result, numRetries,
                   historyVars>>

----------------------------------------------------------------------------
(* The handlers' behaviour.  A handler call yields one of a set of         *)
(* answers: retry (the handler waits and calls client.Do(request) again,   *)
(* returning what that call returns) or a (response, error) pair.          *)

Answer(r, e) == [retry |-> FALSE, resp |-> r, err |-> e]
RetryAnswer == [retry |-> TRUE, resp |-> NoResp, err |-> NoErr]

\* a response produced by an error handler that recovers without the server
FallbackResp(n) == [status |-> StatusOK, attempt |-> n, mark |-> 1]

\* the retry handlers resubmit while the call's retry budget lasts
\* variant: one retry more than the bound
MayRetry_unbounded(h, code, used) == code \in h.Retryable /\ used <= h.RetryNum

MayRetry(h, code, used) == code \in h.Retryable /\ used < h.RetryNum

HandleResponse(h, response, used) ==
    CASE h.kind = "Wrap" ->
            {Answer([response EXCEPT !.mark = @ + 1], NoErr)}
      [] h.kind = "Reject" ->
            IF response.status = StatusServerError
            THEN {Answer(response, ErrHandler)}
            ELSE {Answer(response, NoErr)}
      [] h.kind = "Recover" ->
            {Answer(response, NoErr)}
      [] h.kind \in {"DefaultRetry", "ConfigRetry"} ->
            IF MayRetry(h, response.status, used)
            THEN {RetryAnswer}
            ELSE {Answer(response, NoErr)}

HandleRequestError(h, response, err, n, used) ==
    CASE h.kind = "Recover" ->
            {Answer(FallbackResp(n), NoErr), Answer(NoResp, ErrHandler)}
      [] h.kind = "ConfigRetry" ->
            IF MayRetry(h, TransportFailure, used)
            THEN {RetryAnswer}
            ELSE {Answer(response, err)}

----------------------------------------------------------------------------
(* Do (client.go:280-317).  One frame per invocation of Do that has not    *)
(* returned; the innermost is the head of stack[c].                        *)
(*   i      index of the handler the loop is at                            *)
(*   resp, err   the loop's response, err variables                        *)
(*   tresp, terr what c.httpClient.Do returned to this invocation          *)
(*   log    the handler calls this invocation has made and their answers   *)

NewFrame == [i |-> 0, resp |-> NoResp, err |-> NoErr, tresp |-> NoResp,
             terr |-> NoErr, log |-> << >>]

Call(idx, method, inResp, inErr, outResp, outErr) ==
    [h |-> idx, m |-> method, inResp |-> inResp, inErr |-> inErr,
     outResp |-> outResp, outErr |-> outErr]

\* the transport's possible results for one attempt
TransportResults(n) ==
    {[resp |-> [status |-> s, attempt |-> n, mark |-> 0], err |-> NoErr] : s \in Statuses}
    \cup {[resp |-> NoResp, err |-> ErrTransport]}

\* req.NumAttempts++ and the request goes out on the transport
\* variant: the attempt is counted on the Request of every running call
DoSend_shared(c) ==
    /\ pc[c] = "send"
    /\ request' = [d \in Callers |->
                     IF d = c \/ pc[d] \in {"send", "inflight", "chain", "wait", "ret"}
                     THEN [request[d] EXCEPT !.NumAttempts = @ + 1]
                     ELSE request[d]]
    /\ stack' = [stack EXCEPT ![c] = <<NewFrame>> \o @]
    /\ lastSent' = [lastSent EXCEPT ![c] =
                      [auth |-> request[c].auth, at |-> now,
                       n |-> request[c].NumAttempts + 1]]
    /\ pc' = [pc EXCEPT ![c] = "inflight"]
    /\ UNCHANGED <<newClient, requestParams, loaded, handled, urlFields, urlVars, now, issued, callsStarted, goroutines, config, clientVars, curEpoch,
                   startTime, ctx, hasToken, retval, result, numRetries,
                   retrieverCalls, contended, heldSnapshot, freshAtCheck,
                   staleSeen, outcomes, translated>>

DoSend(c) ==
    /\ pc[c] = "send"
    /\ request' = [request EXCEPT ![c].NumAttempts = @ + 1]
    /\ stack' = [stack EXCEPT ![c] = <<NewFrame>> \o @]
    /\ lastSent' = [lastSent EXCEPT ![c] =
                      [auth |-> request[c].auth, at |-> now,
                       n |-> request[c].NumAttempts + 1]]
    /\ pc' = [pc EXCEPT ![c] = "inflight"]
    /\ UNCHANGED <<newClient, requestParams, loaded, handled, urlFields, urlVars, now, issued, callsStarted, goroutines, config, clientVars, curEpoch,
                   startTime, ctx, hasToken, retval, result, numRetries,
                   retrieverCalls, contended, heldSnapshot, freshAtCheck,
                   staleSeen, outcomes, translated>>

\* the errors map after the transport returned (client.go:283-293)
\* variant: the status is counted before the fast path
RecordStatus_always(handlers, m, res) ==
    IF res.err = NoErr /\ res.resp.status >= 400
    THEN IncrementErrorsByType(m, Itoa(res.resp.status))
    ELSE m

RecordStatus(handlers, m, res) ==
    IF Len(handlers) # 0 /\ res.err = NoErr /\ res.resp.status >= 400
    THEN IncrementErrorsByType(m, Itoa(res.resp.status))
    ELSE m

\* response, err := c.httpClient.Do(req.Request) returns; the fast path
\* without handlers; the count of a status >= 400; the loop is entered
DoReceive(c) ==
    /\ pc[c] = "inflight"
    /\ \E res \in TransportResults(request[c].NumAttempts) :
         /\ outcomes' = [outcomes EXCEPT ![c] =
                           Append(@, IF res.err = NoErr THEN res.resp.status
                                     ELSE TransportFailure)]
         /\ request' = [request EXCEPT ![c].NumErrorsByType =
                          RecordStatus(responseHandlers, @, res)]
         /\ stack' = [stack EXCEPT ![c] =
                        <<[Head(@) EXCEPT !.i = 1, !.resp = res.resp, !.err = res.err,
                                          !.tresp = res.resp, !.terr = res.err]>>
                        \o Tail(@)]
         /\ IF Len(responseHandlers) = 0
            THEN /\ retval' = [retval EXCEPT ![c] = res]
                 /\ pc' = [pc EXCEPT ![c] = "ret"]
            ELSE /\ retval' = retval
                 /\ pc' = [pc EXCEPT ![c] = "chain"]
    /\ UNCHANGED <<newClient, requestParams, loaded, handled, urlFields, urlVars, now, issued, callsStarted, goroutines, config, clientVars, curEpoch,
                   startTime, ctx, hasToken, result, numRetries, retrieverCalls,
                   contended, heldSnapshot, freshAtCheck, staleSeen, lastSent,
                   translated>>

\* the branch of the loop body a frame is in: set by the loop's err (295)
Branch(f) == IF f.err # NoErr THEN "error" ELSE "response"

\* the loop body after handler f.i answered (r, e) in the given branch:
\* the assignment to response, err and the test that follows it
\* (client.go:300-304 and 310-313)
\* variant: a handler's error does not end the response loop
AfterHandler_continue(f, branch, method, r, e) ==
    LET g == [f EXCEPT !.resp = r, !.err = e,
                       !.log = Append(@, Call(f.i, method, f.resp, f.err, r, e))]
    IN  IF branch = "error" /\ e = NoErr
        THEN [return |-> TRUE, frame |-> g]
        ELSE [return |-> FALSE, frame |-> [g EXCEPT !.i = @ + 1]]

\* variant: a cleared error does not end the error loop
AfterHandler_errcontinue(f, branch, method, r, e) ==
    LET g == [f EXCEPT !.resp = r, !.err = e,
                       !.log = Append(@, Call(f.i, method, f.resp, f.err, r, e))]
    IN  IF branch = "response" /\ e # NoErr
        THEN [return |-> TRUE, frame |-> g]
        ELSE [return |-> FALSE, frame |-> [g EXCEPT !.i = @ + 1]]

AfterHandler(f, branch, method, r, e) ==
    LET g == [f EXCEPT !.resp = r, !.err = e,
                       !.log = Append(@, Call(f.i, method, f.resp, f.err, r, e))]
    IN  IF (branch = "error" /\ e = NoErr) \/ (branch = "response" /\ e # NoErr)
        THEN [return |-> TRUE, frame |-> g]
        ELSE [return |-> FALSE, frame |-> [g EXCEPT !.i = @ + 1]]

\* the method the loop calls on handler h in a branch
MethodOf(branch) == IF branch = "error" THEN "HandleRequestError" ELSE "HandleResponse"

\* one more call under key
Counted(m, key) ==
    IF key \in DOMAIN m THEN [m EXCEPT ![key] = @ + 1] ELSE (key :> 1) @@ m

\* the frame moves on after a handler answered
Resume(c, rest, a) ==
    /\ stack' = [stack EXCEPT ![c] = <<a.frame>> \o rest]
    /\ IF a.return
       THEN /\ retval' = [retval EXCEPT ![c] = [resp |-> a.frame.resp, err |-> a.frame.err]]
            /\ pc' = [pc EXCEPT ![c] = "ret"]
       ELSE /\ retval' = retval
            /\ pc' = [pc EXCEPT ![c] = "chain"]

\* one iteration of for _, hr := range c.responseHandlers, up to the handler's
\* answer or to its retry
ChainStep(c) ==
    /\ pc[c] = "chain"
    /\ LET f == Head(stack[c])
           rest == Tail(stack[c])
       IN  IF f.i > Len(responseHandlers)
           THEN \* return response, err (client.go:316)
                /\ retval' = [retval EXCEPT ![c] = [resp |-> f.resp, err |-> f.err]]
                /\ pc' = [pc EXCEPT ![c] = "ret"]
                /\ UNCHANGED <<stack, numRetries, handled>>
           ELSE LET h == responseHandlers[f.i]
                    branch == Branch(f)
                IN  IF branch = "error" /\ ~HasErrorCapability(h)
                    THEN \* not a ResponseOrErrorHandler: err stays, next handler
                         /\ stack' = [stack EXCEPT ![c] = <<[f EXCEPT !.i = @ + 1]>> \o rest]
                         /\ UNCHANGED <<retval, pc, numRetries, handled>>
                    ELSE \E ans \in (IF branch = "error"
                                     THEN HandleRequestError(h, f.resp, f.err,
                                                request[c].NumAttempts, numRetries[c])
                                     ELSE HandleResponse(h, f.resp, numRetries[c])) :
                            /\ handled' = [handled EXCEPT ![c] =
                                              IF branch = "response"
                                              THEN Counted(@, <<f.i, f.resp.attempt>>)
                                              ELSE @]
                            /\ IF ans.retry
                               THEN /\ numRetries' = [numRetries EXCEPT ![c] = @ + 1]
                                    /\ pc' = [pc EXCEPT ![c] = "wait"]
                                    /\ UNCHANGED <<stack, retval>>
                               ELSE /\ Resume(c, rest, AfterHandler(f, branch,
                                                  MethodOf(branch), ans.resp, ans.err))
                                    /\ UNCHANGED numRetries
    /\ UNCHANGED <<newClient, requestParams, loaded, urlFields, urlVars, now, issued, callsStarted, goroutines, config, clientVars, curEpoch,
                   startTime, ctx, hasToken, request, result, historyVars>>

\* the retry handler's wait is over: it calls client.Do(request)
RetryWake(c) ==
    /\ pc[c] = "wait"
    /\ pc' = [pc EXCEPT ![c] = "send"]
    /\ UNCHANGED <<newClient, requestParams, loaded, handled, urlFields, urlVars, now, issued, callsStarted, goroutines, config, clientVars, curEpoch,
                   startTime, ctx, hasToken, request, stack, retval, result,
                   numRetries, historyVars>>

\* util.ParseHTTPStatusCodeInResponse: a status >= 400 becomes a typed error
ParseHTTPStatusCodeInResponse(response) ==
    IF response.status >= 400
    THEN [resp |-> response, err |-> ErrHTTP]
    ELSE [resp |-> response, err |-> NoErr]

\* Do returns retval[c]: to DoRequest (client.go:407), or to the retry
\* handler that called it, which returns the same pair to the loop of the
\* outer Do
\* variant: every invocation of Do translates the response it returns
DoReturn_translating(c) ==
    /\ pc[c] = "ret"
    /\ LET rest == Tail(stack[c])
           out == IF retval[c].err = NoErr
                  THEN ParseHTTPStatusCodeInResponse(retval[c].resp)
                  ELSE retval[c]
       IN  /\ translated' = [translated EXCEPT ![c] =
                               IF retval[c].err = NoErr THEN @ + 1 ELSE @]
           /\ IF rest = << >>
              THEN /\ stack' = [stack EXCEPT ![c] = << >>]
                   /\ pc' = [pc EXCEPT ![c] = "afterDo"]
                   /\ retval' = [retval EXCEPT ![c] = out]
              ELSE LET f == Head(rest)
                   IN  Resume(c, Tail(rest),
                              AfterHandler(f, Branch(f), MethodOf(Branch(f)),
                                           out.resp, out.err))
    /\ UNCHANGED <<newClient, requestParams, loaded, handled, urlFields, urlVars, now, issued, callsStarted, goroutines, config,
                   clientVars, curEpoch, startTime, ctx, hasToken, request, result,
                   numRetries, retrieverCalls, contended, heldSnapshot,
                   freshAtCheck, staleSeen, lastSent, outcomes>>

\* variant: the outer loop calls the handler that retried once more, on the
\* result of the inner Do
DoReturn_rerun(c) ==
    /\ pc[c] = "ret"
    /\ LET rest == Tail(stack[c])
       IN  IF rest = << >>
           THEN /\ stack' = [stack EXCEPT ![c] = << >>]
                /\ pc' = [pc EXCEPT ![c] = "afterDo"]
                /\ retval' = retval
           ELSE LET f == Head(rest)
                    a == AfterHandler(f, Branch(f), MethodOf(Branch(f)),
                                      retval[c].resp, retval[c].err)
                IN  Resume(c, Tail(rest), [a EXCEPT !.frame.i = f.i])
    /\ UNCHANGED <<newClient, requestParams, loaded, handled, urlFields, urlVars, now, issued, callsStarted, goroutines, config, clientVars, curEpoch,
                   startTime, ctx, hasToken, request, result, numRetries,
                   historyVars>>

DoReturn(c) ==
    /\ pc[c] = "ret"
    /\ LET rest == Tail(stack[c])
       IN  IF rest = << >>
           THEN /\ stack' = [stack EXCEPT ![c] = << >>]
                /\ pc' = [pc EXCEPT ![c] = "afterDo"]
                /\ retval' = retval
           ELSE LET f == Head(rest)
                IN  Resume(c, Tail(rest),
                           AfterHandler(f, Branch(f), MethodOf(Branch(f)),
                                        retval[c].resp, retval[c].err))
    /\ UNCHANGED <<newClient, requestParams, loaded, handled, urlFields, urlVars, now, issued, callsStarted, goroutines, config, clientVars, curEpoch,
                   startTime, ctx, hasToken, request, result, numRetries,
                   historyVars>>

\* if err != nil { return nil, err }; return util.ParseHTTPStatusCodeInResponse(response)
\* variant: the error of Do is dropped and its response returned
AfterDo_swallow(c) ==
    /\ pc[c] = "afterDo"
    /\ IF retval[c].err # NoErr
       THEN /\ result' = [result EXCEPT ![c] = [resp |-> retval[c].resp, err |-> NoErr]]
            /\ translated' = translated
       ELSE /\ result' = [result EXCEPT ![c] = ParseHTTPStatusCodeInResponse(retval[c].resp)]
            /\ translated' = [translated EXCEPT ![c] = @ + 1]
    /\ pc' = [pc EXCEPT ![c] = "done"]
    /\ UNCHANGED <<newClient, requestParams, loaded, handled, urlFields, urlVars, now, issued, callsStarted, goroutines, config,
                   clientVars, curEpoch, startTime, ctx, hasToken, request, stack,
                   retval, numRetries, retrieverCalls, contended, heldSnapshot,
                   freshAtCheck, staleSeen, lastSent, outcomes>>

\* variant: the translator is called before the error of Do is looked at
AfterDo_translateFirst(c) ==
    /\ pc[c] = "afterDo"
    /\ translated' = [translated EXCEPT ![c] = @ + 1]
    /\ IF retval[c].err # NoErr
       THEN result' = [result EXCEPT ![c] = [resp |-> NoResp, err |-> retval[c].err]]
       ELSE result' = [result EXCEPT ![c] = ParseHTTPStatusCodeInResponse(retval[c].resp)]
    /\ pc' = [pc EXCEPT ![c] = "done"]
    /\ UNCHANGED <<newClient, requestParams, loaded, handled, urlFields, urlVars, now, issued, callsStarted, goroutines, config,
                   clientVars, curEpoch, startTime, ctx, hasToken, request, stack,
                   retval, numRetries, retrieverCalls, contended, heldSnapshot,
                   freshAtCheck, staleSeen, lastSent, outcomes>>

AfterDo(c) ==
    /\ pc[c] = "afterDo"
    /\ IF retval[c].err # NoErr
       THEN /\ result' = [result EXCEPT ![c] = [resp |-> NoResp, err |-> retval[c].err]]
            /\ translated' = translated
       ELSE /\ result' = [result EXCEPT ![c] = ParseHTTPStatusCodeInResponse(retval[c].resp)]
            /\ translated' = [translated EXCEPT ![c] = @ + 1]
    /\ pc' = [pc EXCEPT ![c] = "done"]
    /\ UNCHANGED <<newClient, requestParams, loaded, handled, urlFields, urlVars, now, issued, callsStarted, goroutines, config, clientVars, curEpoch,
                   startTime, ctx, hasToken, request, stack, retval, numRetries,
                   retrieverCalls, contended, heldSnapshot, freshAtCheck,
                   staleSeen, lastSent, outcomes>>

\* the caller takes the result; its locals are gone
Finish(c) ==
    /\ pc[c] = "done"
    /\ pc' = [pc EXCEPT ![c] = "idle"]
    /\ curEpoch' = [curEpoch EXCEPT ![c] = 0]
    /\ startTime' = [startTime EXCEPT ![c] = 0]
    /\ ctx' = [ctx EXCEPT ![c] = NoCtx]
    /\ hasToken' = [hasToken EXCEPT ![c] = FALSE]
    /\ request' = [request EXCEPT ![c] = NoRequest]
    /\ stack' = [stack EXCEPT ![c] = << >>]
    /\ retval' = [retval EXCEPT ![c] = NoResult]
    /\ result' = [result EXCEPT ![c] = NoResult]
    /\ numRetries' = [numRetries EXCEPT ![c] = 0]
    /\ retrieverCalls' = [retrieverCalls EXCEPT ![c] = 0]
    /\ contended' = [contended EXCEPT ![c] = FALSE]
    /\ heldSnapshot' = [heldSnapshot EXCEPT ![c] = NoCtx]
    /\ freshAtCheck' = [freshAtCheck EXCEPT ![c] = FALSE]
    /\ staleSeen' = [staleSeen EXCEPT ![c] = FALSE]
    /\ lastSent' = [lastSent EXCEPT ![c] = NoSend]
    /\ outcomes' = [outcomes EXCEPT ![c] = << >>]
    /\ translated' = [translated EXCEPT ![c] = 0]
    /\ requestParams' = [requestParams EXCEPT ![c] = NoRequestParams]
    /\ loaded' = [loaded EXCEPT ![c] = NoCtx]
    /\ handled' = [handled EXCEPT ![c] = EmptyMap]
    /\ UNCHANGED <<newClient, urlFields, urlVars, now, issued, callsStarted, goroutines, config, clientVars>>

\* time passes
Tick ==
    /\ now < MaxTime
    /\ now' = now + 1
    /\ UNCHANGED <<newClient, requestParams, loaded, handled, urlFields, urlVars, issued, callsStarted, goroutines, config,
                   clientVars, localVars, historyVars>>

----------------------------------------------------------------------------
(* Calls of the URL builders.  A builder reads the client's fields and its *)
(* arguments and returns; what it returned is kept in urlOut.             *)

Client ==
    [rootDomain |-> rootDomain, overrideHost |-> overrideHost, scheme |-> scheme,
     defaultTenant |-> defaultTenant, tenantScoped |-> tenantScoped,
     region |-> region]

MayCall(c, fn) ==
    /\ c \in goroutines
    /\ pc[c] = "idle"
    /\ urlArgs.fn = fn
    /\ ~urlOut[c].called

\* the builder returns: no field of the client is assigned
\* variant: the host that was built is kept as the client's override host
Returns_keepHost(c, host, res) ==
    /\ urlOut' = [urlOut EXCEPT ![c] =
                    [called |-> TRUE, host |-> host, u |-> res.u, err |-> res.err,
                     mux |-> tokenMux]]
    /\ overrideHost' = host
    /\ UNCHANGED <<newClient, rootDomain, scheme, defaultTenant, tenantScoped, region,
                   urlArgs, now, issued, callsStarted, goroutines,
                   config, clientVars, localVars, historyVars, callVars>>

Returns(c, host, res) ==
    /\ urlOut' = [urlOut EXCEPT ![c] =
                    [called |-> TRUE, host |-> host, u |-> res.u, err |-> res.err,
                     mux |-> tokenMux]]
    /\ UNCHANGED <<newClient, urlFields, urlArgs, now, issued, callsStarted,
                   goroutines, config, clientVars, localVars, historyVars, callVars>>

BuildHostCall(c) ==
    /\ MayCall(c, "BuildHost")
    /\ Returns(c, BuildHost(Client, urlArgs.serviceCluster, urlArgs.appendToHost),
               [u |-> ZeroURL, err |-> NoErr])

BuildURLWithTenantCall(c) ==
    /\ MayCall(c, "BuildURLWithTenant")
    /\ LET res == BuildURLWithTenant(Client, urlArgs.tenant, urlArgs.tenantScoped,
                                     urlArgs.region, urlArgs.queryValues,
                                     urlArgs.serviceCluster, urlArgs.urlPathParts)
       IN  Returns(c, res.u.Host, res)

BuildURLFromPathParamsCall(c) ==
    /\ MayCall(c, "BuildURLFromPathParams")
    /\ LET res == BuildURLFromPathParams(Client, urlArgs.queryValues,
                                         urlArgs.serviceCluster, urlArgs.templ,
                                         urlArgs.pathParams)
       IN  Returns(c, res.u.Host, res)

BuilderCall(c) ==
    \/ BuildHostCall(c)
    \/ BuildURLWithTenantCall(c)
    \/ BuildURLFromPathParamsCall(c)

NextURL == \E c \in Callers : BuilderCall(c)

----------------------------------------------------------------------------
(* NewClient (client.go:476-556) *)

\* NewClient returns (nil, err)
NewClientFails(err) ==
    /\ newClient' = [newClient EXCEPT !.pc = "returned", !.err = err]
    /\ UNCHANGED <<config, issued, goroutines, clientVars, urlFields>>

\* the checks of the configuration, the defaults and the handler list, up to
\* the call of the retriever (client.go:476-528)
\* variant: the check of the token source is left out
NewClientBegin_unchecked ==
    /\ newClient.pc = "start"
    /\ IF ~HostValid(config)
       THEN NewClientFails(ErrHosts)
       ELSE /\ newClient' = [newClient EXCEPT !.pc = "retrieve",
                                              !.handlers = NewClientHandlers(config)]
            /\ config' = NewClientConfig(config)
            /\ UNCHANGED <<issued, goroutines, clientVars, urlFields>>
    /\ UNCHANGED <<now, callsStarted, requestParams, localVars, historyVars, urlVars, callVars>>

NewClientBegin ==
    /\ newClient.pc = "start"
    /\ IF ~HostValid(config)
       THEN NewClientFails(ErrHosts)
       ELSE IF ~TokenSourceValid(config)
       THEN NewClientFails(ErrTokenSource)
       ELSE /\ newClient' = [newClient EXCEPT !.pc = "retrieve",
                                              !.handlers = NewClientHandlers(config)]
            /\ config' = NewClientConfig(config)
            /\ UNCHANGED <<issued, goroutines, clientVars, urlFields>>
    /\ UNCHANGED <<now, callsStarted, requestParams, localVars, historyVars, urlVars, callVars>>

\* ctx, err := config.TokenRetriever.GetTokenContext(); on an error NewClient
\* returns it wrapped, otherwise the client is initialized and returned
\* (client.go:530-555)
NewClientRetrieve ==
    /\ newClient.pc = "retrieve"
    /\ LET retriever == NewClientRetriever(config)
           called == [newClient EXCEPT !.pc = "returned", !.retrieverCalls = @ + 1]
       IN  \/ /\ retriever # "NoOp"
              /\ newClient' = [called EXCEPT !.err = ErrNewClient]
              /\ UNCHANGED <<issued, goroutines, clientVars, urlFields>>
           \/ /\ issued' = issued + 1
              /\ \E got \in RetrievedContexts(retriever, now, issued') :
                    /\ tokenContext' = got
                    /\ newClient' = [called EXCEPT !.got = got, !.client = TRUE]
              /\ rootDomain' = NewClientRootDomain(config)
              /\ overrideHost' = NewClientOverrideHost(config)
              /\ scheme' = NewClientScheme(config)
              /\ defaultTenant' = config.Tenant
              /\ tenantScoped' = config.TenantScoped
              /\ region' = config.Region
              /\ tokenRetriever' = retriever
              /\ responseHandlers' = newClient.handlers
              /\ goroutines' = NewCallers
              /\ UNCHANGED tokenMux
    /\ UNCHANGED <<now, callsStarted, config, localVars, historyVars, urlVars,
                   callVars>>

Next ==
    \/ Tick
    \/ \E c \in Callers :
          \/ StartDoRequest(c)
          \/ CheckFreshness(c)
          \/ Lock(c)
          \/ Retrieve(c)
          \/ UpdateTokenContext(c)
          \/ Unlock(c)
          \/ UnlockErr(c)
          \/ BuildRequest(c)
          \/ NewRequest(c)
          \/ DoSend(c)
          \/ DoReceive(c)
          \/ ChainStep(c)
          \/ RetryWake(c)
          \/ DoReturn(c)
          \/ AfterDo(c)
          \/ Finish(c)

Spec == Init /\ [][Next]_vars
SpecChain == InitChain /\ [][Next]_vars
SpecURL == InitURL /\ [][NextURL]_vars

\* the builders next to DoRequest
NextShared == Next \/ NextURL
SpecShared == InitShared /\ [][NextShared]_vars

\* NewClient, and the calls on the client it returns
NextNew == NewClientBegin \/ NewClientRetrieve \/ Next
SpecNew == InitNew /\ [][NextNew]_vars

\* a caller inside DoRequest keeps running: the transport answers within
\* its timeout, the retriever returns, a wait ends
Proceed(c) ==
    \/ CheckFreshness(c) \/ Lock(c) \/ Retrieve(c) \/ UpdateTokenContext(c)
    \/ Unlock(c) \/ UnlockErr(c) \/ BuildRequest(c) \/ NewRequest(c)
    \/ DoSend(c) \/ DoReceive(c) \/ ChainStep(c) \/ RetryWake(c)
    \/ DoReturn(c) \/ AfterDo(c)

FairSpecRetry ==
    InitRetry /\ [][Next]_vars /\ \A c \in Callers : WF_vars(Proceed(c))

\* ... with two callers.  A caller waiting in tokenMux.Lock() gets the lock
\* once it is free and stays free: the other callers make finitely many
\* calls
FairSpecLock ==
    InitLock /\ [][Next]_vars /\ \A c \in Callers : WF_vars(Proceed(c))

----------------------------------------------------------------------------
(* Properties *)

PastCheck(c) == pc[c] \notin {"idle", "check"}
PastRefresh(c) == PastCheck(c) /\ pc[c] \notin {"lock", "retrieve"}
InCritical(c) == pc[c] \in {"retrieve", "install", "unlock", "unlockErr"}
Returned(c) == pc[c] = "done"

\* C1: in a DoRequest call that runs without any other caller running, the
\* retriever is not called when now + tokenExpireWindow < StartTime +
\* ExpiresIn held at the freshness check; otherwise it is called exactly
\* once, and before the first attempt goes out.
C1_RetrieverCallsPerRequest ==
    \A c \in Callers :
        (PastCheck(c) /\ ~contended[c]) =>
            IF freshAtCheck[c]
            THEN retrieverCalls[c] = 0
            ELSE /\ retrieverCalls[c] <= 1
                 /\ PastRefresh(c) => retrieverCalls[c] = 1
                 /\ request[c].NumAttempts > 0 => retrieverCalls[c] = 1

C1_Witness ==
    \E c \in Callers :
        /\ Returned(c) /\ ~contended[c] /\ ~freshAtCheck[c]
        /\ retrieverCalls[c] = 1
        /\ request[c].NumAttempts = 1
        /\ tokenRetriever = "Dynamic"

\* C2: at most one caller at a time is between tokenMux.Lock() and
\* tokenMux.Unlock(), so retriever calls and installations of different
\* callers never overlap; a caller at the freshness check does not hold
\* the lock.
C2_RefreshSerialized ==
    /\ Cardinality({c \in Callers : InCritical(c)}) <= 1
    /\ \A c \in Callers : InCritical(c) => tokenMux = c
    /\ \A c \in Callers : pc[c] \in {"check", "lock"} => tokenMux # c

C2_Witness ==
    \E c, d \in Callers :
        /\ c # d
        /\ pc[c] = "install"
        /\ pc[d] = "lock"
        /\ staleSeen[d]

\* C3: every caller that found the token stale calls the retriever exactly
\* once itself, also when another caller has installed a new snapshot in
\* the meantime: N such callers make N retriever calls.
C3_EachStaleCallerRefreshes ==
    /\ \A c \in Callers :
          (staleSeen[c] /\ PastRefresh(c)) => retrieverCalls[c] = 1
    /\ \A c \in Callers :
          (PastCheck(c) /\ ~staleSeen[c]) => retrieverCalls[c] = 0

C3_Witness ==
    \E c, d \in Callers :
        /\ c # d
        /\ staleSeen[c] /\ PastRefresh(c) /\ retrieverCalls[c] = 1
        /\ staleSeen[d] /\ PastRefresh(d) /\ retrieverCalls[d] = 1
        \* d took the lock when the snapshot c installed was already fresh
        /\ heldSnapshot[d].AccessToken = heldSnapshot[c].AccessToken + 1
        /\ now + TokenExpireWindow < heldSnapshot[d].StartTime + heldSnapshot[d].ExpiresIn

\* C4: when the retriever fails, DoRequest returns that error and no
\* response, has sent nothing and entered no handler chain, has left the
\* snapshot as it was when the lock was taken, has called the retriever
\* once, and no longer holds the lock when it returns.
C4_RetrieverFailureAborts ==
    \A c \in Callers :
        /\ pc[c] = "unlockErr" =>
              /\ tokenContext = heldSnapshot[c]
              /\ retrieverCalls[c] = 1
        /\ (Returned(c) /\ result[c].err = ErrRetrieve) =>
              /\ result[c].resp = NoResp
              /\ request[c] = NoRequest
              /\ lastSent[c] = NoSend
              /\ outcomes[c] = << >>
              /\ stack[c] = << >>
              /\ retrieverCalls[c] = 1
              /\ tokenMux # c

C4_Witness ==
    \E c \in Callers :
        /\ Returned(c)
        /\ result[c].err = ErrRetrieve
        /\ staleSeen[c]

\* C5, as claimed: no attempt, first or retried, goes out carrying a token
\* that is within its expiry window when the attempt is sent:
\* now + tokenExpireWindow < StartTime + ExpiresIn at every send.
C5_NoAttemptWithExpiringToken ==
    \A c \in Callers :
        pc[c] = "inflight" =>
            lastSent[c].at + TokenExpireWindow
                < lastSent[c].auth.StartTime + lastSent[c].auth.ExpiresIn

\* C5, amended: freshness is ensured once per DoRequest, before the request
\* is built: a call that found the token stale sends an attempt only after
\* its one retriever call succeeded, and carries the context it retrieved
\* or a later one; a call that found it fresh calls no retriever.  Do makes
\* no check: every attempt, retries included, carries the token NewRequest
\* put on the Request.
C5_FreshnessEnsuredOncePerRequest ==
    \A c \in Callers :
        request[c].NumAttempts >= 1 =>
            /\ staleSeen[c] =>
                  /\ retrieverCalls[c] = 1
                  /\ ctx[c] # NoCtx
                  /\ request[c].auth.AccessToken >= ctx[c].AccessToken
            /\ ~staleSeen[c] => retrieverCalls[c] = 0
            /\ lastSent[c].auth = request[c].auth
            /\ lastSent[c].n = request[c].NumAttempts

\* a retry goes out, unchecked, with a token that has entered its window
C5_Witness ==
    \E c \in Callers :
        /\ pc[c] = "inflight"
        /\ lastSent[c].n = 2
        /\ ~staleSeen[c]
        /\ lastSent[c].at + TokenExpireWindow
              >= lastSent[c].auth.StartTime + lastSent[c].auth.ExpiresIn

----------------------------------------------------------------------------
(* Properties of Do and the handler chain *)

RetryKinds == {"DefaultRetry", "ConfigRetry"}

DefaultPolicy == config.RetryRequests /\ ~config.RetryConfig.set

\* the maximum retry count of the policy the client was configured with
PolicyRetryNum ==
    IF ~config.RetryRequests THEN 0
    ELSE IF config.RetryConfig.set THEN config.RetryConfig.RetryNum
    ELSE DefaultRetryNum

\* o is k rate-limited outcomes followed by one success
RateLimitedThenSuccess(o) ==
    /\ Len(o) >= 1
    /\ o[Len(o)] = StatusOK
    /\ \A j \in 1..(Len(o) - 1) : o[j] = StatusTooManyRequests

\* C6: under the default retry policy, a call whose attempts were k times
\* rate-limited and then successful returns with NumAttempts = k + 1 and
\* NumErrorsByType holding k under "429" and no other key.
C6_CountersAfterRateLimits ==
    \A c \in Callers :
        (Returned(c) /\ DefaultPolicy /\ RateLimitedThenSuccess(outcomes[c])
           /\ Len(outcomes[c]) - 1 <= DefaultRetryNum) =>
            LET k == Len(outcomes[c]) - 1
            IN  /\ request[c].NumAttempts = k + 1
                /\ GetNumErrorsByResponseCode(request[c], StatusTooManyRequests) = k
                /\ DOMAIN request[c].NumErrorsByType
                      = IF k = 0 THEN {} ELSE {<<4, 2, 9>>}
                /\ result[c].err = NoErr

C6_Witness ==
    \E c \in Callers :
        /\ Returned(c) /\ DefaultPolicy
        /\ outcomes[c] = <<StatusTooManyRequests, StatusTooManyRequests, StatusOK>>
        /\ request[c].NumAttempts = 3

AttemptsBounded ==
    \A c \in Callers :
        /\ request[c].NumAttempts <= 1 + PolicyRetryNum
        /\ Len(outcomes[c]) <= 1 + PolicyRetryNum
        /\ Len(stack[c]) <= 1 + PolicyRetryNum
        /\ numRetries[c] <= PolicyRetryNum

\* C7: under either retry policy a logical call makes at most 1 + the
\* policy's maximum retry count attempts, whatever the outcomes are, the
\* nesting of Do never goes deeper than that, and the call that has sent
\* its first attempt returns to its caller.
C7_AttemptsBoundedAndReturns ==
    /\ []AttemptsBounded
    /\ \A c \in Callers : (pc[c] = "inflight") ~> Returned(c)

C7_Witness ==
    \E c \in Callers :
        /\ Returned(c)
        /\ PolicyRetryNum >= 1
        /\ Len(outcomes[c]) = 1 + PolicyRetryNum
        /\ outcomes[c][Len(outcomes[c])] \in responseHandlers[1].Retryable

\* the handler calls of one invocation of Do, for a transport response
ResponseCallsInOrder(f) ==
    \A k \in 1..Len(f.log) :
        /\ f.log[k].m = "HandleResponse"
        /\ f.log[k].h = k
        /\ f.log[k].inResp = (IF k = 1 THEN f.tresp ELSE f.log[k - 1].outResp)
        /\ f.log[k].inErr = NoErr
        /\ k < Len(f.log) => f.log[k].outErr = NoErr

\* C8: when the transport returned a response, Do calls HandleResponse of
\* the handlers in registration order, each on the response the previous
\* one returned; the first error a handler returns ends the loop and is
\* what Do returns.
C8_ResponseChain ==
    \A c \in Callers :
        /\ \A j \in 1..Len(stack[c]) :
              stack[c][j].terr = NoErr => ResponseCallsInOrder(stack[c][j])
        /\ (pc[c] = "ret" /\ responseHandlers # << >> /\ Head(stack[c]).terr = NoErr) =>
              LET f == Head(stack[c])
                  n == Len(f.log)
              IN  /\ n >= 1
                  /\ retval[c] = [resp |-> f.log[n].outResp, err |-> f.log[n].outErr]
                  /\ f.log[n].outErr = NoErr => n = Len(responseHandlers)

C8_Witness ==
    \E c \in Callers :
        /\ pc[c] = "ret"
        /\ Head(stack[c]).terr = NoErr
        /\ Len(Head(stack[c]).log) = 2
        /\ Len(responseHandlers) = 3
        /\ Head(stack[c]).log[2].inResp.status = StatusServerError
        /\ Head(stack[c]).log[2].outErr = ErrHandler
        /\ retval[c].err = ErrHandler

\* the indexes of the handlers with the error-handling capability
ErrorHandlers == {j \in 1..Len(responseHandlers) : HasErrorCapability(responseHandlers[j])}

\* the handler calls of one invocation of Do, for a transport error
ErrorCallsInOrder(f) ==
    /\ \A k \in 1..Len(f.log) :
          /\ f.log[k].m = "HandleRequestError"
          /\ f.log[k].h \in ErrorHandlers
          /\ f.log[k].inErr = (IF k = 1 THEN f.terr ELSE f.log[k - 1].outErr)
          /\ f.log[k].inErr # NoErr
          /\ k < Len(f.log) => f.log[k].outErr # NoErr
          \* in order, none skipped
          /\ {j \in ErrorHandlers : j < f.log[k].h}
                = {f.log[j].h : j \in 1..(k - 1)}

\* C9: when the transport returned an error, Do calls only
\* HandleRequestError, of the handlers that have it, in registration order;
\* it returns at once what the first handler that clears the error returns,
\* and the last error when none does.
C9_ErrorChain ==
    \A c \in Callers :
        /\ \A j \in 1..Len(stack[c]) :
              stack[c][j].terr # NoErr => ErrorCallsInOrder(stack[c][j])
        /\ (pc[c] = "ret" /\ responseHandlers # << >> /\ Head(stack[c]).terr # NoErr) =>
              LET f == Head(stack[c])
                  n == Len(f.log)
              IN  IF n >= 1 /\ f.log[n].outErr = NoErr
                  THEN retval[c] = [resp |-> f.log[n].outResp, err |-> NoErr]
                  ELSE /\ {f.log[k].h : k \in 1..n} = ErrorHandlers
                       /\ retval[c].err = (IF n = 0 THEN f.terr ELSE f.log[n].outErr)
                       /\ retval[c].err # NoErr

C9_Witness ==
    \E c \in Callers :
        /\ pc[c] = "ret"
        /\ Head(stack[c]).terr = ErrTransport
        /\ Len(Head(stack[c]).log) = 1
        /\ Head(stack[c]).log[1].outErr = NoErr
        /\ Head(stack[c]).log[1].h = 2
        /\ Len(responseHandlers) = 3
        /\ retval[c].err = NoErr

\* the decimal text of the status codes
DecimalText(status) ==
    CASE status = 200 -> <<2, 0, 0>>
      [] status = 429 -> <<4, 2, 9>>
      [] status = 500 -> <<5, 0, 0>>

\* m2 is m1 with exactly the count under key raised by one
RaisedByOne(m1, m2, key) ==
    /\ DOMAIN m2 = DOMAIN m1 \cup {key}
    /\ m2[key] = (IF key \in DOMAIN m1 THEN m1[key] ELSE 0) + 1
    /\ \A k \in DOMAIN m1 \ {key} : m2[k] = m1[k]

\* C10: an invocation of Do raises NumErrorsByType[status text] by one, and
\* changes no other key, exactly when a handler is registered, the
\* transport returned no error and the status is >= 400; without handlers it
\* returns the transport's pair as it is and leaves the map alone.
C10_ErrorCountFrame ==
    [][\A c \in Callers :
          LET m1 == request[c].NumErrorsByType
              m2 == request'[c].NumErrorsByType
          IN  IF pc[c] = "inflight" /\ pc'[c] # "inflight"
              THEN LET f == Head(stack'[c])
                   IN  /\ IF Len(responseHandlers) >= 1 /\ f.terr = NoErr
                             /\ f.tresp.status >= 400
                          THEN RaisedByOne(m1, m2, DecimalText(f.tresp.status))
                          ELSE m2 = m1
                       /\ request'[c].NumAttempts = request[c].NumAttempts
                       /\ Len(responseHandlers) = 0 =>
                             /\ pc'[c] = "ret"
                             /\ retval'[c] = [resp |-> f.tresp, err |-> f.terr]
                             /\ request'[c].NumAttempts = 1
              ELSE m2 = m1 \/ m2 = EmptyMap
      ]_vars

C10_Witness ==
    \E c \in Callers :
        /\ pc[c] = "chain"
        /\ Len(stack[c]) = 2
        /\ Head(stack[c]).i = 1
        /\ Head(stack[c]).tresp.status = StatusTooManyRequests
        /\ request[c].NumErrorsByType = (<<4, 2, 9>> :> 2)

----------------------------------------------------------------------------
(* Properties of DoRequest after Do has returned *)

Recovering == \E j \in 1..Len(responseHandlers) : responseHandlers[j].kind = "Recover"

\* C11: no error is swallowed.  When the outermost Do returns a non-nil
\* error, DoRequest returns that error and no response; in particular a
\* transport error of the last attempt that no handler cleared, also after
\* retries, is what the caller gets.
C11_FinalErrorReturned ==
    \A c \in Callers :
        /\ (Returned(c) /\ retval[c].err # NoErr) =>
              result[c] = [resp |-> NoResp, err |-> retval[c].err]
        /\ (Returned(c) /\ outcomes[c] # << >>
              /\ outcomes[c][Len(outcomes[c])] = TransportFailure /\ ~Recovering) =>
              result[c] = [resp |-> NoResp, err |-> ErrTransport]

C11_Witness ==
    \E c \in Callers :
        /\ Returned(c)
        /\ numRetries[c] = 1
        /\ outcomes[c] = <<TransportFailure, TransportFailure>>
        /\ result[c] = [resp |-> NoResp, err |-> ErrTransport]

\* C12, as claimed: the status translator is invoked exactly once in every
\* completed DoRequest call, whatever its outcome.
C12_TranslatedOncePerCall ==
    \A c \in Callers : Returned(c) => translated[c] = 1

\* C12, amended: the translator is invoked at most once per call: exactly
\* once when Do was reached and returned a nil error, whatever the status of
\* its response, and not at all when the token retrieval, the construction
\* of the request or Do failed.
C12_TranslatedOnceAfterDoSucceeds ==
    \A c \in Callers :
        /\ translated[c] <= 1
        /\ Returned(c) =>
              translated[c] = (IF request[c].NumAttempts >= 1 /\ retval[c].err = NoErr
                               THEN 1 ELSE 0)
        /\ (Returned(c) /\ result[c].err \in {ErrRetrieve, ErrForm, ErrMarshal,
                                               ErrTransport, ErrHandler}) =>
              translated[c] = 0
        /\ (Returned(c) /\ result[c].err \in {NoErr, ErrHTTP}) => translated[c] = 1

C12_Witness ==
    \E c \in Callers :
        /\ Returned(c)
        /\ request[c].NumAttempts = 1
        /\ result[c].err = ErrTransport
        /\ translated[c] = 0

\* C13: the translator is invoked only after the outermost Do has returned,
\* on the response of the last attempt; once it has been invoked the call
\* makes no attempt and no handler call any more, so every handler call sees
\* an untranslated response.
C13_TranslationAfterLastAttempt ==
    [][\A c \in Callers :
          /\ translated'[c] >= 1 => (pc'[c] = "done" /\ stack'[c] = << >>)
          /\ translated'[c] > translated[c] =>
                /\ pc[c] = "afterDo" /\ stack[c] = << >>
                /\ retval[c].resp.attempt = request[c].NumAttempts
                /\ result'[c].resp = retval[c].resp
                /\ request'[c] = request[c]
                /\ outcomes'[c] = outcomes[c]
          /\ translated[c] >= 1 =>
                /\ request'[c].NumAttempts <= request[c].NumAttempts
                /\ Len(outcomes'[c]) <= Len(outcomes[c])]_vars

C13_Witness ==
    \E c \in Callers :
        /\ Returned(c)
        /\ translated[c] = 1
        /\ outcomes[c] = <<StatusTooManyRequests, StatusServerError>>
        /\ result[c].resp.attempt = 2
        /\ result[c].err = ErrHTTP

----------------------------------------------------------------------------
(* Properties of the URL builders *)

Called(c, fn) == urlOut[c].called /\ urlArgs.fn = fn

\* {prefix.}{serviceCluster|api}.{rootDomain}
HostPattern(prefix, serviceCluster) ==
    (IF prefix = Empty THEN Empty ELSE prefix \o Dot)
       \o (IF serviceCluster = Empty THEN api ELSE serviceCluster)
       \o Dot \o rootDomain

\* C14: BuildHost returns the override host as it is whenever one is
\* configured, whatever serviceCluster and prefix are; otherwise
\* {prefix.}{serviceCluster}.{rootDomain}, with api for an empty
\* serviceCluster and no prefix part for an empty prefix.
C14_BuildHost ==
    \A c \in Callers :
        Called(c, "BuildHost") =>
            LET sc == urlArgs.serviceCluster
                a == urlArgs.appendToHost
            IN  /\ overrideHost # Empty => urlOut[c].host = overrideHost
                /\ overrideHost = Empty => urlOut[c].host = HostPattern(a, sc)
                /\ (rootDomain = exampleCom /\ sc = catalog /\ a = Empty) =>
                      urlOut[c].host = catalog \o Dot \o exampleCom
                /\ (rootDomain = exampleCom /\ sc = Empty /\ a = Empty) =>
                      urlOut[c].host = api \o Dot \o exampleCom

C14_Witness ==
    \E c \in Callers :
        /\ Called(c, "BuildHost")
        /\ overrideHost = xTest
        /\ urlArgs.serviceCluster = catalog
        /\ urlArgs.appendToHost = acme
        /\ urlOut[c].host = xTest

\* C15: BuildURLWithTenant with an empty tenant returns an error and the
\* zero URL whatever its other arguments are; with a non-empty tenant it
\* returns no error.
C15_EmptyTenantRejected ==
    \A c \in Callers :
        Called(c, "BuildURLWithTenant") =>
            IF urlArgs.tenant = Empty
            THEN urlOut[c].err = ErrEmptyTenant /\ urlOut[c].u = ZeroURL
            ELSE urlOut[c].err = NoErr

C15_Witness ==
    \E c \in Callers :
        /\ Called(c, "BuildURLWithTenant")
        /\ urlArgs.tenant = Empty
        /\ urlArgs.tenantScoped /\ urlArgs.region = us1
        /\ urlArgs.urlPathParts = <<system, catalog>>
        /\ urlOut[c].err = ErrEmptyTenant

\* C16: without an override host, the host BuildURLWithTenant forms has as
\* prefix the region when tenantScoped, the region is not empty and the
\* joined path contains "system" anywhere; the tenant when tenantScoped and
\* the joined path does not contain "system"; no prefix otherwise, also for
\* tenantScoped with an empty region and "system" in the path, which is no
\* error.
C16_TenantHostPrefix ==
    \A c \in Callers :
        (Called(c, "BuildURLWithTenant") /\ urlArgs.tenant # Empty
           /\ overrideHost = Empty) =>
            LET a == urlArgs
                inSystem == Contains(urlOut[c].u.Path, system)
            IN  /\ urlOut[c].err = NoErr
                /\ (a.tenantScoped /\ a.region # Empty /\ inSystem) =>
                      urlOut[c].host = HostPattern(a.region, a.serviceCluster)
                /\ (a.tenantScoped /\ ~inSystem) =>
                      urlOut[c].host = HostPattern(a.tenant, a.serviceCluster)
                /\ (~a.tenantScoped \/ (a.region = Empty /\ inSystem)) =>
                      urlOut[c].host = HostPattern(Empty, a.serviceCluster)

C16_Witness ==
    \E c \in Callers :
        /\ Called(c, "BuildURLWithTenant")
        /\ urlArgs.tenant = acme /\ urlArgs.tenantScoped /\ urlArgs.region = us1
        /\ urlArgs.urlPathParts = <<catalog, system>>
        /\ urlArgs.serviceCluster = Empty
        /\ overrideHost = Empty
        /\ urlOut[c].host = us1 \o Dot \o api \o Dot \o rootDomain

NoSegmentHasSystem(parts) == \A k \in 1..Len(parts) : ~Contains(parts[k], system)

\* C17, as claimed: for every non-empty tenant, tenantScoped and a
\* non-empty region, when no path segment contains "system" the host is
\* {tenant}.{serviceCluster|api}.{rootDomain}.
C17_TenantPrefixForAnyTenant ==
    \A c \in Callers :
        (Called(c, "BuildURLWithTenant") /\ urlArgs.tenant # Empty
           /\ urlArgs.tenantScoped /\ urlArgs.region # Empty
           /\ NoSegmentHasSystem(urlArgs.urlPathParts) /\ overrideHost = Empty) =>
            urlOut[c].host = HostPattern(urlArgs.tenant, urlArgs.serviceCluster)

\* C17, amended: the same for every non-empty tenant that does not itself
\* contain "system".
C17_TenantPrefixUnlessSystemTenant ==
    \A c \in Callers :
        (Called(c, "BuildURLWithTenant") /\ urlArgs.tenant # Empty
           /\ ~Contains(urlArgs.tenant, system)
           /\ urlArgs.tenantScoped /\ urlArgs.region # Empty
           /\ NoSegmentHasSystem(urlArgs.urlPathParts) /\ overrideHost = Empty) =>
            /\ urlOut[c].err = NoErr
            /\ urlOut[c].host = HostPattern(urlArgs.tenant, urlArgs.serviceCluster)

C17_Witness ==
    \E c \in Callers :
        /\ Called(c, "BuildURLWithTenant")
        /\ urlArgs.tenant = sys /\ urlArgs.tenantScoped /\ urlArgs.region = us1
        /\ urlArgs.urlPathParts = <<tem, catalog>>
        /\ urlArgs.serviceCluster = catalog
        /\ rootDomain = exampleCom /\ overrideHost = Empty
        /\ urlOut[c].host = sys \o Dot \o catalog \o Dot \o exampleCom

\* the path the template of the call renders to, when it renders
Rendered == Execute(urlArgs.templ.pieces, urlArgs.pathParams)
Renders == ~urlArgs.templ.malformed /\ Rendered.err = NoErr

\* C18: on a tenant-scoped client, a rendered path that starts with
\* "/system/" fails with "region cannot be empty" and the zero URL when the
\* region is empty; with a region it succeeds, the path is the rendered path
\* without a tenant segment, and the host prefix is "region-{region}".
C18_SystemPathNeedsRegion ==
    \A c \in Callers :
        (Called(c, "BuildURLFromPathParams") /\ tenantScoped /\ Renders
           /\ HasPrefix(Rendered.out, SystemPrefix)) =>
            IF region = Empty
            THEN urlOut[c].err = ErrRegionEmpty /\ urlOut[c].u = ZeroURL
            ELSE /\ urlOut[c].err = NoErr
                 /\ urlOut[c].u.Path = Rendered.out
                 /\ urlOut[c].host =
                       (IF overrideHost # Empty THEN overrideHost
                        ELSE HostPattern(RegionDash \o region, urlArgs.serviceCluster))

C18_Witness ==
    \E c \in Callers :
        /\ Called(c, "BuildURLFromPathParams")
        /\ tenantScoped /\ region = Empty
        /\ Rendered.out = SystemPrefix \o <<"f", "o", "o">>
        /\ urlOut[c].err = ErrRegionEmpty
        /\ urlOut[c].u = ZeroURL

\* C19, as claimed: on a tenant-scoped client, for every default tenant and
\* region, a rendered path that does not start with "/system/" succeeds,
\* gives the path "/" + defaultTenant + rendered path and the default tenant
\* as host prefix.
C19_NonSystemPathUsesTenant ==
    \A c \in Callers :
        (Called(c, "BuildURLFromPathParams") /\ tenantScoped /\ Renders
           /\ ~HasPrefix(Rendered.out, SystemPrefix)) =>
            /\ urlOut[c].err = NoErr
            /\ urlOut[c].u.Path = Slash \o defaultTenant \o Rendered.out
            /\ urlOut[c].host =
                  (IF overrideHost # Empty THEN overrideHost
                   ELSE HostPattern(defaultTenant, urlArgs.serviceCluster))

\* C19, amended: the same whenever "/" + defaultTenant + rendered path does
\* not start with "/system/" either; when it does (default tenant "system"
\* and a rendered path that starts with "/"), the call is treated as a
\* system-namespace call: "region cannot be empty" for an empty region, host
\* prefix "region-{region}" otherwise, the path still being
\* "/" + defaultTenant + rendered path.
C19_NonSystemPathUsesTenantUnlessSystemTenant ==
    \A c \in Callers :
        (Called(c, "BuildURLFromPathParams") /\ tenantScoped /\ Renders
           /\ ~HasPrefix(Rendered.out, SystemPrefix)) =>
            LET path == Slash \o defaultTenant \o Rendered.out
            IN  IF ~HasPrefix(path, SystemPrefix)
                THEN /\ urlOut[c].err = NoErr
                     /\ urlOut[c].u.Path = path
                     /\ urlOut[c].host =
                           (IF overrideHost # Empty THEN overrideHost
                            ELSE HostPattern(defaultTenant, urlArgs.serviceCluster))
                ELSE IF region = Empty
                THEN urlOut[c].err = ErrRegionEmpty /\ urlOut[c].u = ZeroURL
                ELSE /\ urlOut[c].err = NoErr
                     /\ urlOut[c].u.Path = path
                     /\ urlOut[c].host =
                           (IF overrideHost # Empty THEN overrideHost
                            ELSE HostPattern(RegionDash \o region,
                                             urlArgs.serviceCluster))

C19_Witness ==
    \E c \in Callers :
        /\ Called(c, "BuildURLFromPathParams")
        /\ tenantScoped /\ region = Empty /\ defaultTenant = sys
        /\ Rendered.out = slashSystem
        /\ overrideHost = Empty /\ urlArgs.serviceCluster = Empty
        /\ urlOut[c].err = NoErr
        /\ urlOut[c].u.Path = Slash \o sys \o slashSystem
        /\ urlOut[c].host = sys \o Dot \o api \o Dot \o rootDomain

\* what a builder call returned
Output(c) == [host |-> urlOut[c].host, u |-> urlOut[c].u, err |-> urlOut[c].err]

\* C20: the builders are pure.  Calls with the same arguments on the same
\* client return the same result, whoever makes them and whatever DoRequest
\* is doing meanwhile; a builder call changes no field of the client, not
\* the token snapshot either, and does not touch the token lock; DoRequest
\* changes none of the fields the builders read.
C20_BuildersPure ==
    [][/\ \A c, d \in Callers :
            (urlOut'[c].called /\ urlOut'[d].called) =>
                /\ urlOut'[c].host = urlOut'[d].host
                /\ urlOut'[c].u = urlOut'[d].u
                /\ urlOut'[c].err = urlOut'[d].err
       /\ (urlOut' # urlOut) =>
            /\ UNCHANGED <<urlFields, tokenContext, tokenMux, tokenRetriever,
                           responseHandlers, config>>
            /\ UNCHANGED <<localVars, historyVars, callVars, now, issued>>
       /\ UNCHANGED urlFields]_vars

C20_Witness ==
    \E c, d \in Callers :
        /\ c # d
        /\ urlOut[c].called /\ urlOut[c].mux = d
        /\ urlOut[d].called /\ urlOut[d].mux = Free
        /\ tokenContext.AccessToken = 2
        /\ Output(c) = Output(d)
        /\ urlOut[c].host = us1 \o Dot \o catalog \o Dot \o rootDomain

----------------------------------------------------------------------------
(* Properties of NewClient *)

\* the configuration as it was passed is one NewClient accepts
Accepted == HostValid(newClient.given) /\ TokenSourceValid(newClient.given)

\* C21: NewClient returns an error and no client, without calling a token
\* retriever, when both Host and OverrideHost are set or when both or
\* neither of Token and TokenRetriever are set; for every other
\* configuration it calls the retriever exactly once and returns a client
\* iff that call succeeded.  A client that was returned has one token
\* source, the no-op retriever of the static token or the retriever given,
\* and a snapshot that this source returned.
C21_NewClient ==
    /\ newClient.pc = "start" => newClient.retrieverCalls = 0
    /\ newClient.pc # "returned" =>
          /\ newClient.retrieverCalls = 0
          /\ ~newClient.client /\ goroutines = {}
    /\ (newClient.pc = "returned" /\ ~Accepted) =>
          /\ newClient.err \in {ErrHosts, ErrTokenSource}
          /\ ~newClient.client
          /\ newClient.retrieverCalls = 0 /\ issued = 0
    /\ (newClient.pc = "returned" /\ Accepted) =>
          /\ newClient.retrieverCalls = 1
          /\ newClient.client <=> newClient.got # NoCtx
          /\ newClient.client <=> newClient.err = NoErr
          /\ ~newClient.client => newClient.err = ErrNewClient
    /\ ~newClient.client =>
          /\ goroutines = {} /\ tokenRetriever = "nil" /\ tokenContext = NoCtx
          /\ \A c \in Callers : pc[c] = "idle"
    /\ newClient.client =>
          /\ tokenRetriever = (IF newClient.given.Token # 0 THEN "NoOp" ELSE "Dynamic")
          /\ (tokenRetriever = "NoOp") # newClient.given.TokenRetriever
          /\ newClient.got.AccessToken =
                (IF tokenRetriever = "NoOp" THEN newClient.given.Token ELSE 1)
          /\ tokenContext # NoCtx
          /\ tokenContext.AccessToken >= newClient.got.AccessToken
          /\ issued = 1 => tokenContext = newClient.got

C21_Witness ==
    /\ newClient.pc = "returned"
    /\ newClient.given.TokenRetriever /\ newClient.given.Token = 0
    /\ newClient.given.OverrideHost = xTest
    /\ newClient.retrieverCalls = 1
    /\ newClient.err = ErrNewClient
    /\ ~newClient.client

----------------------------------------------------------------------------
(* Properties of the request *)

BadForm(c) == requestParams[c].multipart /\ requestParams[c].Body # "FormData"

\* C23: a DoRequest whose headers declare multipart/form-data and whose
\* body is not a FormData returns the form-data error as soon as it reads
\* its parameters: it has made no attempt, entered no invocation of Do,
\* called no handler and retried nothing; no other call ends with that
\* error.
C23_FormShapeError ==
    \A c \in Callers :
        /\ BadForm(c) =>
              /\ Returned(c)
              /\ result[c] = [resp |-> NoResp, err |-> ErrForm]
              /\ request[c] = NoRequest
              /\ lastSent[c] = NoSend
              /\ outcomes[c] = << >>
              /\ stack[c] = << >>
              /\ numRetries[c] = 0
              /\ translated[c] = 0
        /\ result[c].err = ErrForm => BadForm(c)

C23_Witness ==
    \E c \in Callers :
        /\ Returned(c)
        /\ requestParams[c] = [multipart |-> TRUE, Body |-> "bytes"]
        /\ result[c].err = ErrForm
        /\ retrieverCalls[c] = 1
        /\ Len(responseHandlers) = 3
        /\ responseHandlers[1].kind = "ConfigRetry"

----------------------------------------------------------------------------
(* Properties of the handler registration *)

\* the retry handler of the policy a configuration selects
PolicyHandler(given) ==
    IF ~given.RetryConfig.set
    THEN DefaultRetryResponseHandler
    ELSE ConfigurableRetryResponseHandler(given.RetryConfig.RetryNum,
                                          given.RetryConfig.ShouldRetryFn)

\* the handlers of Config.ResponseHandlers, after the policy's retry
\* handler when RetryRequests is on
HandlersOf(given) ==
    (IF given.RetryRequests THEN <<PolicyHandler(given)>> ELSE << >>)
        \o given.ResponseHandlers

\* C24: the client NewClient returns has every handler of
\* Config.ResponseHandlers registered, in the order given, after the retry
\* handler of the selected policy when RetryRequests is on, with a static
\* Token and with a TokenRetriever alike; an invocation of Do that got a
\* response and returns no error has called each of them, in that order.
C24_HandlersRegistered ==
    newClient.client =>
        /\ responseHandlers = HandlersOf(newClient.given)
        /\ \A c \in Callers :
              (pc[c] = "ret" /\ Head(stack[c]).terr = NoErr /\ retval[c].err = NoErr) =>
                  LET f == Head(stack[c])
                      n == Len(HandlersOf(newClient.given))
                  IN  /\ Len(f.log) = n
                      /\ \A k \in 1..n :
                            /\ f.log[k].m = "HandleResponse"
                            /\ f.log[k].h = k

----------------------------------------------------------------------------
(* Properties of the counters of concurrent calls *)

\* how many of the outcomes o are the status s
CountOf(o, s) == Cardinality({j \in 1..Len(o) : o[j] = s})

\* C25: whatever the other callers do, the counters of a call's Request
\* count that call's attempts only: NumAttempts is the number of attempts
\* the call has made, the one in flight included, and with handlers
\* registered the count under a status >= 400 is the number of the call's
\* attempts that ended with that status; the retries of a call count on the
\* Request of its first attempt.
C25_CountersPerCall ==
    \A c \in Callers :
        /\ request[c].NumAttempts
              = Len(outcomes[c]) + (IF pc[c] = "inflight" THEN 1 ELSE 0)
        /\ lastSent[c].n = request[c].NumAttempts
        /\ \A s \in Statuses :
              GetNumErrorsByResponseCode(request[c], s)
                = (IF responseHandlers # << >> /\ s >= 400
                   THEN CountOf(outcomes[c], s) ELSE 0)
        /\ DOMAIN request[c].NumErrorsByType
              \subseteq {DecimalText(s) : s \in Statuses}

C25_Witness ==
    \E c, d \in Callers :
        /\ c # d
        /\ contended[c] /\ contended[d]
        /\ Returned(c)
        /\ outcomes[c] = <<StatusTooManyRequests, StatusServerError>>
        /\ request[c].NumAttempts = 2
        /\ request[c].NumErrorsByType = (<<4, 2, 9>> :> 1) @@ (<<5, 0, 0>> :> 1)
        /\ pc[d] = "inflight"
        /\ outcomes[d] = <<StatusTooManyRequests>>
        /\ request[d].NumAttempts = 2
        /\ request[d].NumErrorsByType = (<<4, 2, 9>> :> 1)

----------------------------------------------------------------------------
(* Properties of the readers of the token snapshot *)

\* C26: a reader never combines two snapshots.  The second load of
\* c.tokenContext in the freshness check (its ExpiresIn) finds the snapshot
\* the first load (its StartTime) found, and the load that writes the
\* Authorization header in NewRequest finds the snapshot whose token was
\* tested for presence, also while other callers refresh.
C26_ConsistentSnapshot ==
    [][\A c \in Callers :
          /\ (pc[c] = "check" /\ pc'[c] # "check") => tokenContext = loaded[c]
          /\ (pc[c] = "newRequest" /\ pc'[c] # "newRequest") =>
                tokenContext = loaded[c]]_vars

----------------------------------------------------------------------------
(* Properties of the reentrant chain *)

\* the number of HandleResponse calls of handler h on the response of
\* attempt n in the call of c
HandledTimes(c, h, n) == IF <<h, n>> \in DOMAIN handled[c] THEN handled[c][<<h, n>>] ELSE 0

\* C27, as claimed: within one logical call no handler's HandleResponse is
\* invoked more than once on the response of one attempt, also when an
\* earlier handler retried.
C27_HandledOncePerAttempt ==
    \A c \in Callers :
        \A key \in DOMAIN handled[c] : handled[c][key] <= 1

\* C27, amended: every invocation of Do calls each handler at most once.
\* The handler that retries, registered first, sees the response of each
\* attempt at most once; a handler registered after it sees the response
\* of attempt n once in the Do that made the attempt and once more in every
\* enclosing Do that continues its chain on that result: at most n times,
\* and more than once only after a retry.
C27_HandledOncePerDo ==
    \A c \in Callers :
        /\ \A j \in 1..Len(stack[c]) :
              LET log == stack[c][j].log
              IN  \A k1, k2 \in 1..Len(log) : log[k1].h = log[k2].h => k1 = k2
        /\ \A key \in DOMAIN handled[c] :
              /\ key[1] \in 1..Len(responseHandlers)
              /\ key[2] \in 1..request[c].NumAttempts
              /\ handled[c][key] <= (IF key[1] = 1 THEN 1 ELSE key[2])
              /\ handled[c][key] > 1 => numRetries[c] >= 1

C27_Witness ==
    \E c \in Callers :
        /\ Returned(c)
        /\ outcomes[c] = <<StatusTooManyRequests, StatusTooManyRequests, StatusOK>>
        /\ HandledTimes(c, 1, 3) = 1
        /\ HandledTimes(c, 2, 3) = 3
        /\ HandledTimes(c, 2, 2) = 0
        /\ responseHandlers[2].kind = "Wrap"
        /\ result[c].resp.mark = 3

----------------------------------------------------------------------------
(* Properties of the counters of one call *)

\* the sum of the counts of a map
RECURSIVE SumOf(_)
SumOf(m) ==
    IF DOMAIN m = {} THEN 0
    ELSE LET k == CHOOSE x \in DOMAIN m : TRUE
         IN  m[k] + SumOf([y \in DOMAIN m \ {k} |-> m[y]])

\* the number of completed attempts that ended with a status >= 400
ErrorStatuses(o) == Cardinality({j \in 1..Len(o) : o[j] >= 400})

\* C28: during a logical call NumAttempts and every count of
\* NumErrorsByType never decrease and no key goes away; every key present
\* has a count >= 1; the counts sum to at most NumAttempts, and with
\* handlers registered to the number of completed attempts whose status
\* was >= 400.
C28_CounterInvariants ==
    [][\A c \in Callers :
          LET m1 == request[c].NumErrorsByType
              m2 == request'[c].NumErrorsByType
          IN  /\ pc'[c] # "idle" =>
                    /\ request'[c].NumAttempts >= request[c].NumAttempts
                    /\ \A k \in DOMAIN m1 : k \in DOMAIN m2 /\ m2[k] >= m1[k]
              /\ \A k \in DOMAIN m2 : m2[k] >= 1
              /\ SumOf(m2) <= request'[c].NumAttempts
              /\ responseHandlers # << >> => SumOf(m2) = ErrorStatuses(outcomes'[c])
              /\ responseHandlers = << >> => m2 = EmptyMap]_vars

C28_Witness ==
    \E c \in Callers :
        /\ pc[c] = "inflight"
        /\ request[c].NumAttempts = 3
        /\ request[c].NumErrorsByType = (<<4, 2, 9>> :> 2)
        /\ SumOf(request[c].NumErrorsByType) = 2
        /\ outcomes[c] = <<StatusTooManyRequests, StatusTooManyRequests>>

----------------------------------------------------------------------------
(* Properties of the token lock *)

\* the lock is held by nobody outside lines 359-367
LockScoped ==
    \A c \in Callers :
        /\ tokenMux = c => InCritical(c)
        /\ pc[c] \in {"build", "newRequest", "send", "inflight", "chain", "wait",
                      "ret", "afterDo", "done", "idle"} => tokenMux # c

\* C29: a caller holds the token lock only from tokenMux.Lock() to the
\* Unlock() after the installation or after the retriever's error: never
\* while its attempt is in flight, a handler runs or a retry waits, and not
\* when it builds the request or has returned.  As every retriever call
\* returns, a caller that waits for the lock gets it, and a caller that
\* holds it gives it up.
C29_LockScopedToRefresh ==
    /\ []LockScoped
    /\ \A c \in Callers : (pc[c] = "lock") ~> (tokenMux = c)
    /\ \A c \in Callers : (tokenMux = c) ~> (tokenMux # c /\ pc[c] \in {"build", "done"})

C29_Witness ==
    \E c, d \in Callers :
        /\ c # d
        /\ pc[c] = "lock"
        /\ tokenMux = Free
        /\ pc[d] = "wait"
        /\ retrieverCalls[d] = 1
        /\ retrieverCalls[c] = 0

====
